---------------------------- MODULE Spec2Model ----------------------------
(***************************************************************************)
(* Model of the cx-compiler core: the front-end builder API of             *)
(* Compiler.cpp (declaration queue, symbol table, instruction stream,      *)
(* call lowering, implicit casts, post-parse reachability) and the part    *)
(* of DosExeEmitter.cpp that walks the stream function by function.        *)
(*                                                                         *)
(* Source IPs are 0-based as in the code: the instruction with IP k is     *)
(* instruction_stream[k + 1].                                              *)
(***************************************************************************)
EXTENDS Integers, Sequences, FiniteSets, TLC

VARIABLES
    symbol_table,        \* Compiler::symbol_table, insertion-ordered list
    declaration_queue,   \* Compiler::declaration_queue
    parameter_count,     \* Compiler::parameter_count
    instruction_stream,  \* Compiler::instruction_stream_head .. tail
    function_ip,         \* Compiler::function_ip
    error,               \* source of the CompilerException raised, or "none"
    call,                \* the builder operation invoked last, with its arguments
    defined,             \* names passed to AddFunction, in order of definition
    phase,               \* position in Compiler::OnRun
    emitter,             \* the DosExeEmitter object
    cast,                \* arguments and result of the last CanImplicitCast
    compiler             \* the other fields of Compiler: counters, scopes, stack size

vars == << symbol_table, declaration_queue, parameter_count, instruction_stream,
           function_ip, error, call, defined, phase, emitter, cast,
           compiler >>

-----------------------------------------------------------------------------
(* Bounds of the model *)

MaxQueue == 3
MaxDeclarations == 2
MaxStatics == 2
MaxStream == 3
MaxPointer == 2
MaxProgram == 4
MaxTemps == 3
MaxScope == 3
MaxHandles == 3

-----------------------------------------------------------------------------
(* SymbolTableEntry.h *)

nullptr == "nullptr"

EntryPointName == "Main"

BaseSymbolType ==
    << "Unknown", "None", "Function", "FunctionPrototype", "EntryPoint",
       "SharedFunction", "Label", "Void", "Bool", "Uint8", "Uint16", "Uint32",
       "String" >>

\* Ordinal of an enumerator of BaseSymbolType
BaseOrd(b) == CHOOSE i \in 1..Len(BaseSymbolType) : BaseSymbolType[i] = b

SymbolType(b, p) == [base |-> b, pointer |-> p]

SymbolTableEntry(n, t, sz, rt, et, i, par, pnt, tmp) ==
    [name |-> n, type |-> t, size |-> sz, return_type |-> rt, exp_type |-> et,
     ip |-> i, parameter |-> par, parent |-> pnt, is_temp |-> tmp,
     ref_count |-> 0]

\* new SymbolTableEntry(): every field value-initialised
NewEntry(n) ==
    SymbolTableEntry(n, SymbolType("Unknown", 0), 0, SymbolType("Unknown", 0),
                     "None", 0, 0, nullptr, FALSE)

IsFunctionRole(b) ==
    b \in {"Function", "FunctionPrototype", "EntryPoint", "SharedFunction"}

-----------------------------------------------------------------------------
(* Compiler.cpp: helpers *)

NextIp == Len(instruction_stream)

\* AddSymbol appends at the tail of the symbol table; it checks only that
\* the name is not empty.
AddSymbol(table, n, t, sz, rt, et, i, par, pnt, tmp) ==
    Append(table, SymbolTableEntry(n, t, sz, rt, et, i, par, pnt, tmp))

\* AddSymbol for each entry of a list, in list order, with parent pnt;
\* the first pc entries get the parameter indices 1..pc, the others 0
AddSymbols(table, list, pnt, pc) ==
    table \o [k \in 1..Len(list) |->
                SymbolTableEntry(list[k].name, list[k].type, list[k].size,
                                 list[k].return_type, list[k].exp_type,
                                 list[k].ip, IF k <= pc THEN k ELSE 0, pnt, list[k].is_temp)]

DeclareSharedFunctions ==
    LET Unknown == SymbolType("Unknown", 0)
        Shared(n, rt, par) ==
            SymbolTableEntry(n, SymbolType("SharedFunction", 0), 0, rt, "None",
                             0, par, nullptr, FALSE)
        Param(n, t, par, pnt) ==
            SymbolTableEntry(n, t, 0, Unknown, "None", 0, par, pnt, FALSE)
    IN << Shared("PrintUint32", SymbolType("Void", 0), 1),
          Param("value", SymbolType("Uint32", 0), 1, "PrintUint32"),
          Shared("PrintString", SymbolType("Void", 0), 1),
          Param("value", SymbolType("String", 0), 1, "PrintString"),
          Shared("PrintNewLine", SymbolType("Void", 0), 0),
          Shared("ReadUint32", SymbolType("Uint32", 0), 0),
          Shared("GetCommandLine", SymbolType("String", 0), 0),
          Shared("#StringsEqual", SymbolType("Bool", 0), 2),
          Param("a", SymbolType("String", 0), 1, "#StringsEqual"),
          Param("b", SymbolType("String", 0), 2, "#StringsEqual"),
          Shared("#Alloc", SymbolType("Void", 1), 1),
          Param("bytes", SymbolType("Uint32", 0), 1, "#Alloc"),
          Shared("release", SymbolType("Void", 0), 1),
          Param("ptr", SymbolType("Void", 1), 1, "release") >>


-----------------------------------------------------------------------------
(* Compiler.cpp: declaration queue *)

\* The duplicate scan shared by ToDeclarationList, ToParameterList and
\* AddLabel: "while (entry->next) { if (strcmp(name, entry->name) == 0)
\* throw ...; entry = entry->next; }".  The loop body runs for every entry
\* that has a successor, so the tail entry is never compared.
QueueScanFindsName(queue, n) ==
    \E i \in 1..(Len(queue) - 1) : queue[i].name = n

\* Common tail of the three queue operations: throw or append
Enqueue(symbol) ==
    IF QueueScanFindsName(declaration_queue, symbol.name)
    THEN /\ error' = "Declaration"
         /\ UNCHANGED declaration_queue
    ELSE /\ declaration_queue' = Append(declaration_queue, symbol)
         /\ UNCHANGED error

Parsing == phase = "parse" /\ error = "none"

Invoke(op, n, t, args) == call' = [op |-> op, name |-> n, type |-> t, args |-> args]

ToDeclarationList(t, sz, n, et) ==
    /\ Parsing
    /\ Invoke("declare_local", n, t, << >>)
    /\ Enqueue([NewEntry(n) EXCEPT !.type = t, !.size = sz, !.exp_type = et])
    /\ UNCHANGED << symbol_table, parameter_count, instruction_stream,
                    function_ip, defined, phase, emitter, cast, compiler >>

\* parameter_count is incremented before the scan, so it stays incremented
\* when the scan throws.  The parameter list of a function is parsed before
\* its body: parameters are queued while the queue holds only parameters.
ToParameterList(t, n) ==
    /\ Parsing
    /\ Len(declaration_queue) = parameter_count
    /\ Invoke("declare_parameter", n, t, << >>)
    /\ parameter_count' = parameter_count + 1
    /\ Enqueue([NewEntry(n) EXCEPT !.type = t, !.parameter = parameter_count + 1])
    /\ UNCHANGED << symbol_table, instruction_stream, function_ip, defined,
                    phase, emitter, cast, compiler >>

AddLabel(n, i) ==
    /\ Parsing
    /\ Invoke("add_label", n, SymbolType("Label", 0), << >>)
    /\ Enqueue([NewEntry(n) EXCEPT !.type = SymbolType("Label", 0), !.ip = i])
    /\ UNCHANGED << symbol_table, parameter_count, instruction_stream,
                    function_ip, defined, phase, emitter, cast, compiler >>

NumStatics ==
    Cardinality({i \in 1..Len(symbol_table) :
        symbol_table[i].parent = nullptr /\ ~IsFunctionRole(symbol_table[i].type.base)})

AddStaticVariable(t, sz, n) ==
    /\ Parsing
    /\ Invoke("declare_static", n, t, << >>)
    /\ symbol_table' = AddSymbol(symbol_table, n, t, sz, SymbolType("Unknown", 0),
                                  "Variable", 0, 0, nullptr, FALSE)
    /\ UNCHANGED << declaration_queue, parameter_count, instruction_stream,
                    function_ip, error, defined, phase, emitter, cast,
                    compiler >>
-----------------------------------------------------------------------------
(* Compiler.cpp: functions and prototypes *)

Min(S) == CHOOSE x \in S : \A y \in S : x <= y

\* First loop of AddFunction: "Check, if the function is not defined yet"
FunctionAlreadyDefined(table, n) ==
    \E i \in 1..Len(table) :
        /\ table[i].type.base \in {"Function", "EntryPoint", "SharedFunction"}
        /\ table[i].name = n

\* FunctionAlreadyDeclared without the SharedFunction case
FunctionAlreadyDeclared_NoShared(table, n) ==
    \E i \in 1..Len(table) :
        /\ table[i].type.base \in {"FunctionPrototype", "Function", "EntryPoint"}
        /\ table[i].name = n

\* Loop of AddFunctionPrototype: any function-role entry with that name
FunctionAlreadyDeclared(table, n) ==
    \E i \in 1..Len(table) :
        /\ IsFunctionRole(table[i].type.base)
        /\ table[i].name = n

\* EntryPointShapeIsValid without the pointer test of the return type
EntryPointShapeIsValid_NoPointerCheck(pc, rt) ==
    /\ pc = 0
    /\ rt.base = "Uint8"

\* The two checks of the entry-point branch of AddFunction
EntryPointShapeIsValid(pc, rt) ==
    /\ pc = 0
    /\ rt.base = "Uint8" /\ rt.pointer = 0

\* "Find function prototype": index of the first prototype named n, 0 if none
FindPrototype(table, n) ==
    LET S == {i \in 1..Len(table) :
                table[i].type.base = "FunctionPrototype" /\ table[i].name = n}
    IN IF S = {} THEN 0 ELSE Min(S)

\* The entries whose parent is n, in table order
ChildrenOf(table, n) == SelectSeq(table, LAMBDA e : e.parent = n)

\* FirstParameterMismatch when the table cursor is not advanced after a match
FirstParameterMismatch_NoAdvance(table, n, queue, pc) ==
    LET ch == ChildrenOf(table, n)
        M == {k \in 1..pc : ch[1].type # queue[k].type}
    IN IF M = {} THEN 0 ELSE Min(M)

\* "Collect all function parameters": the i-th entry with parent n is compared
\* with the head of the queue, which is then removed.  Yields the first
\* position whose types differ, 0 if none.
FirstParameterMismatch(table, n, queue, pc) ==
    LET ch == ChildrenOf(table, n)
        M == {k \in 1..pc : ch[k].type # queue[k].type}
    IN IF M = {} THEN 0 ELSE Min(M)

Throw(src, unchanged) == error' = src /\ UNCHANGED unchanged

ReleaseDeclarationQueue == declaration_queue' = << >> /\ parameter_count' = 0

\* Branch "Prototype was not defined yet": the first pc queue entries become
\* the parameters 1..pc, the others get parameter 0; the Function entry is
\* appended after them.
DefineWithoutPrototype(table, n, rt, queue, pc, ip) ==
    AddSymbol(AddSymbols(table, queue, n, pc),
              n, SymbolType("Function", 0), 0, rt, "None", ip, pc, nullptr, FALSE)

\* "Promote the prototype to complete function"
PromotePrototype(table, prototype, ip) ==
    [table EXCEPT ![prototype].type = SymbolType("Function", 0),
                  ![prototype].ip = ip]

\* Branch "if (prototype)" when no check throws: the prototype entry is
\* promoted in place, the first pc queue entries are deleted and only the
\* remaining ones are added, with parameter 0.
DefineWithPrototype(table, prototype, n, queue, pc, ip) ==
    AddSymbols(PromotePrototype(table, prototype, ip),
               SubSeq(queue, pc + 1, Len(queue)), n, 0)

\* Entry-point branch: every queue entry is added with parameter 0, then the
\* EntryPoint entry
DefineEntryPoint(table, n, rt, queue, ip) ==
    AddSymbol(AddSymbols(table, queue, n, 0),
              n, SymbolType("EntryPoint", 0), 0, rt, "None", ip, 0, nullptr, FALSE)

AddFunction(n, rt) ==
    /\ Parsing
    /\ Invoke("define_function", n, rt, << >>)
    /\ UNCHANGED << instruction_stream, phase, emitter, cast, compiler >>
    /\ IF FunctionAlreadyDefined(symbol_table, n)
       THEN Throw("Declaration", << symbol_table, declaration_queue,
                                    parameter_count, function_ip, defined >>)
       ELSE
        LET ip == function_ip
            prototype == FindPrototype(symbol_table, n)
            mismatch == FirstParameterMismatch(symbol_table, n,
                                               declaration_queue, parameter_count)
            Defined(table) ==
                /\ symbol_table' = table
                /\ ReleaseDeclarationQueue
                /\ defined' = Append(defined, n)
                /\ UNCHANGED error
        IN
        /\ function_ip' = NextIp
        /\ IF n = EntryPointName THEN
              IF ~EntryPointShapeIsValid(parameter_count, rt)
              THEN Throw("Declaration", << symbol_table, declaration_queue,
                                           parameter_count, defined >>)
              ELSE Defined(DefineEntryPoint(symbol_table, n, rt,
                                            declaration_queue, ip))
           ELSE IF prototype # 0 THEN
              IF symbol_table[prototype].parameter # parameter_count
                    \/ symbol_table[prototype].return_type # rt
              THEN Throw("Declaration", << symbol_table, declaration_queue,
                                           parameter_count, defined >>)
              ELSE IF mismatch # 0
              THEN \* the prototype is already promoted and the parameters
                   \* before the mismatch are already removed from the queue
                   /\ symbol_table' = PromotePrototype(symbol_table, prototype, ip)
                   /\ declaration_queue' = SubSeq(declaration_queue, mismatch,
                                                  Len(declaration_queue))
                   /\ Throw("Declaration", << parameter_count, defined >>)
              ELSE Defined(DefineWithPrototype(symbol_table, prototype, n,
                                declaration_queue, parameter_count, ip))
           ELSE Defined(DefineWithoutPrototype(symbol_table, n, rt,
                                declaration_queue, parameter_count, ip))

\* A prototype has no body: it is declared while the queue holds only its
\* parameters.
AddFunctionPrototype(n, rt) ==
    /\ Parsing
    /\ Len(declaration_queue) = parameter_count
    /\ Invoke("declare_function_prototype", n, rt, << >>)
    /\ UNCHANGED << instruction_stream, function_ip, defined, phase, emitter, cast,
                    compiler >>
    /\ IF n = EntryPointName \/ FunctionAlreadyDeclared(symbol_table, n)
       THEN Throw("Declaration", << symbol_table, declaration_queue,
                                    parameter_count >>)
       ELSE /\ symbol_table' =
                AddSymbols(AddSymbol(symbol_table, n,
                                     SymbolType("FunctionPrototype", 0), 0, rt,
                                     "None", 0, parameter_count, nullptr, FALSE),
                           declaration_queue, n, Len(declaration_queue))
            /\ ReleaseDeclarationQueue
            /\ UNCHANGED error
-----------------------------------------------------------------------------
(* Compiler.cpp: casts and call lowering *)

\* CanImplicitCast with the test "to.base >= from.base" left out
CanImplicitCast_NoOrderTest(to, from, type) ==
    IF from = to THEN TRUE
    ELSE IF from.pointer > 0 /\ to.pointer = 1 /\ to.base = "Void" THEN TRUE
    ELSE IF from.pointer = 1 /\ from.base = "Void" /\ to.pointer > 0
            /\ type = "Constant" THEN TRUE
    ELSE IF type = "Constant"
            /\ from.base \in {"Uint8", "Uint16", "Uint32"}
            /\ to.base \in {"Uint8", "Uint16", "Uint32"} THEN TRUE
    ELSE IF to.pointer = 0 /\ from.pointer = 0
            /\ BaseOrd(to.base) >= BaseOrd("Bool")
            /\ BaseOrd(from.base) >= BaseOrd("Bool")
            /\ BaseOrd(to.base) <= BaseOrd("Uint32")
            /\ BaseOrd(from.base) <= BaseOrd("Uint32") THEN TRUE
    ELSE FALSE

CanImplicitCast(to, from, type) ==
    IF from = to THEN TRUE
    ELSE IF from.pointer > 0 /\ to.pointer = 1 /\ to.base = "Void" THEN TRUE
    ELSE IF from.pointer = 1 /\ from.base = "Void" /\ to.pointer > 0
            /\ type = "Constant" THEN TRUE
    ELSE IF type = "Constant"
            /\ from.base \in {"Uint8", "Uint16", "Uint32"}
            /\ to.base \in {"Uint8", "Uint16", "Uint32"} THEN TRUE
    ELSE IF to.pointer = 0 /\ from.pointer = 0
            /\ BaseOrd(to.base) >= BaseOrd("Bool")
            /\ BaseOrd(from.base) >= BaseOrd("Bool")
            /\ BaseOrd(to.base) <= BaseOrd("Uint32")
            /\ BaseOrd(from.base) <= BaseOrd("Uint32")
            /\ BaseOrd(to.base) >= BaseOrd(from.base) THEN TRUE
    ELSE FALSE

InstructionEntry(t, a) == [type |-> t, arg |-> a]

\* AddToStream appends one entry; current_ip is Len(instruction_stream) - 1
AddToStream(stream, t, a) == Append(stream, InstructionEntry(t, a))

\* An If entry: its IP is where the IP of a Goto entry is (the two share the
\* storage of the union), then the comparison and its operands
IfEntry(ip, type, op1, op2) ==
    [type |-> "If", arg |-> ip, compare |-> type, op1 |-> op1, op2 |-> op2]

\* "Find function by its name": index of the callee, 0 if none
FindCallee(table, n) ==
    LET S == {i \in 1..Len(table) :
                /\ table[i].type.base \in {"Function", "FunctionPrototype",
                                           "SharedFunction"}
                /\ table[i].name = n}
    IN IF S = {} THEN 0 ELSE Min(S)

\* "Find parameter description": the entries the do-while loop visits
FormalsOf(table, n) ==
    SelectSeq(table, LAMBDA e : e.parent = n /\ e.parameter # 0)

\* The do-while loop runs at least once, also for a call with no parameter
Iterations(count) == IF count = 0 THEN 1 ELSE count

\* "if (!call_parameters || !current)" in iteration j
ParameterMissing(formals, actuals, j) == j > Len(formals) \/ j > Len(actuals)

\* First iteration of the do-while loop that throws, 0 if none does
FirstCallFailure(table, n, actuals, count) ==
    LET formals == FormalsOf(table, n)
        F == {j \in 1..Iterations(count) :
                IF ParameterMissing(formals, actuals, j)
                THEN count # 0 \/ j # 1
                ELSE ~CanImplicitCast(formals[j].type, actuals[j].type,
                                      actuals[j].exp_type)}
    IN IF F = {} THEN 0 ELSE Min(F)

\* Pushes with the actuals taken from the last one to the first
Pushes_Reversed(actuals, k) ==
    [j \in 1..k |-> InstructionEntry("Push", actuals[k + 1 - j])]

\* The Push entries of the first k actuals, in source order
Pushes(actuals, k) ==
    [j \in 1..k |-> InstructionEntry("Push", actuals[j])]

PrepareForCall(n, call_parameters, count) ==
    LET callee == FindCallee(symbol_table, n)
        formals == FormalsOf(symbol_table, n)
        failure == FirstCallFailure(symbol_table, n, call_parameters, count)
    IN
    /\ Parsing
    /\ Invoke("lower_call", n, SymbolType("None", 0), call_parameters)
    /\ UNCHANGED << symbol_table, declaration_queue, parameter_count,
                    function_ip, defined, phase, emitter, cast, compiler >>
    /\ IF callee = 0 THEN Throw("Statement", << instruction_stream >>)
       ELSE IF symbol_table[callee].parameter # count
       THEN Throw("Statement", << instruction_stream >>)
       ELSE IF failure # 0
       THEN \* the Push entries of the actuals before the failure stay
            /\ instruction_stream' =
                    instruction_stream \o Pushes(call_parameters, failure - 1)
            /\ error' = "Statement"
       ELSE IF ParameterMissing(formals, call_parameters, 1)
       THEN \* "No parameters found": return
            UNCHANGED << instruction_stream, error >>
       ELSE /\ instruction_stream' =
                    instruction_stream \o Pushes(call_parameters, Iterations(count))
            /\ UNCHANGED error
-----------------------------------------------------------------------------
(* The front end driven by the parser *)

Uint8 == SymbolType("Uint8", 0)
Uint16 == SymbolType("Uint16", 0)
Void == SymbolType("Void", 0)
Uint8Ptr == SymbolType("Uint8", 1)

VariableNames == {"a", "b"}
ParameterTypes == {Uint8, Uint16}

\* i386Emitter.h: the registers by their encoding
AX == 0
CX == 1
DX == 2
BX == 3
CpuRegisterNone == 255
Unknown == 0 - 1

NoCall == [op |-> "none", name |-> nullptr, type |-> SymbolType("None", 0),
           args |-> << >>]
\* DosExeEmitter after construction.  emitted, optimized_out and shared record
\* what the emitter did: the IPs whose instruction was translated, the
\* "was optimized out" skips and the shared functions whose code was emitted.
\* buffer holds the operands the emitter stored at an offset of its buffer
\* for a jump, a call or an address, and the strings; the other bytes are
\* not modelled.  pool lists the strings EmitStaticData stored with their
\* addresses, stack_size is the stack size FixMzHeader decided on.
\* jumps, unresolved and references are histories: the jump instructions
\* emitted so far, the target CheckBackpatchListIsEmpty threw for and the
\* operands that wait for the address of a string.  steps is a history as
\* well: for every instruction the switch of EmitInstructions was entered
\* for, the bytes and jumps it emitted and the error it threw; prologues and
\* epilogues list the prologues and epilogues emitted, with the offsets
\* they start and end at and the function they belong to; returns lists
\* the frames EmitReturn destroyed and calls the calls EmitCall emitted,
\* with the bytes their pushes put on the stack (stack_pushed counts them
\* while the parameters of a call are pushed).  previous is
\* the image an earlier run of the emitter produced for the same program.
NoEmitter ==
    [ip_src |-> 0, ip_dst |-> 0, parent |-> 0, was_return |-> FALSE,
     functions |-> << >>, backpatch |-> << >>, ip_src_to_dst |-> << >>,
     labels |-> << >>, buffer_offset |-> 0, buffer |-> << >>,
     call_parameters |-> << >>, strings |-> {}, pool |-> << >>,
     static_size |-> 0, header |-> << >>, stack_size |-> 0,
     emitted |-> << >>, optimized_out |-> << >>, shared |-> << >>,
     jumps |-> << >>, unresolved |-> "none", references |-> << >>,
     steps |-> << >>, epilogues |-> << >>, prologues |-> << >>,
     returns |-> << >>, calls |-> << >>, stack_pushed |-> 0,
     variables |-> << >>, suppressed_registers |-> {}, parent_end_ip |-> 0,
     result |-> CpuRegisterNone, values |-> << >>,
     machine |-> [reg |-> << >>, mem |-> << >>],
     saves |-> << >>, allocations |-> << >>, assigned |-> << >>,
     returning |-> << >>, targets |-> << >>, mapped |-> << >>, arithmetic |-> << >>,
     reads |-> << >>,
     previous |-> << >>, error |-> "none"]
NoCast == [to |-> SymbolType("None", 0), from |-> SymbolType("None", 0),
           type |-> "None", result |-> "unknown"]

\* The fields of Compiler with their initialisers: the counters of
\* GetUnusedVariable, the break and continue scopes and the stack size.
\* scope_history is a history of the calls, not a field: for every open
\* scope of a kind, outermost first, the handles passed to AddToScopeList
\* while that scope was the innermost one.  directives is a history too: the
\* parameters of the #stack directives parsed so far.
NoCompiler ==
    [var_count_bool |-> 0, var_count_uint8 |-> 0, var_count_uint16 |-> 0,
     var_count_uint32 |-> 0, var_count_string |-> 0,
     break_scope |-> -1, continue_scope |-> -1,
     break_list |-> << >>, continue_list |-> << >>,
     stack_size |-> 0,
     scope_history |-> [Break |-> << >>, Continue |-> << >>],
     directives |-> << >>]

\* After the constructor and DeclareSharedFunctions; the parser has emitted
\* the program's leading Goto, so the first function body starts at IP 1.
Init ==
    /\ symbol_table = DeclareSharedFunctions
    /\ declaration_queue = << >>
    /\ parameter_count = 0
    /\ instruction_stream = << InstructionEntry("Goto", 0) >>
    /\ function_ip = 0
    /\ error = "none"
    /\ call = NoCall
    /\ defined = << >>
    /\ phase = "parse"
    /\ emitter = NoEmitter
    /\ cast = NoCast
    /\ compiler = NoCompiler

QueueBelow(bound) == Len(declaration_queue) < bound

StreamBelow(bound) == Len(instruction_stream) < bound

\* Declarations between two function definitions
NextQueue ==
    \/ \E n \in VariableNames :
            QueueBelow(MaxQueue) /\ ToDeclarationList(Uint8, 0, n, "Variable")
    \/ \E n \in VariableNames, t \in ParameterTypes :
            QueueBelow(MaxQueue) /\ ToParameterList(t, n)
    \/ \E n \in VariableNames :
            QueueBelow(MaxQueue) /\ AddLabel(n, NextIp)

SpecQueue == Init /\ [][NextQueue]_vars

\* Declarations, prototypes and definitions of a program
FunctionNames == {EntryPointName, "f", "PrintString"}
ReturnTypes == {Void, Uint8, Uint8Ptr}

Next ==
    \/ QueueBelow(MaxDeclarations) /\ ToDeclarationList(Uint8, 0, "a", "Variable")
    \/ QueueBelow(MaxDeclarations) /\ ToParameterList(Uint8, "a")
    \/ QueueBelow(MaxDeclarations) /\ AddLabel("b", NextIp)
    \/ \E n \in FunctionNames, rt \in ReturnTypes : AddFunction(n, rt)
    \/ \E n \in FunctionNames, rt \in ReturnTypes : AddFunctionPrototype(n, rt)

Spec == Init /\ [][Next]_vars

\* Statics, locals, parameters, labels, prototypes and definitions together
NextTable ==
    \/ QueueBelow(MaxDeclarations) /\ ToDeclarationList(Uint8, 0, "a", "Variable")
    \/ QueueBelow(MaxDeclarations) /\ ToParameterList(Uint8, "a")
    \/ QueueBelow(MaxDeclarations) /\ AddLabel("b", NextIp)
    \/ \E n \in VariableNames :
            NumStatics < MaxStatics /\ AddStaticVariable(Uint8, 0, n)
    \/ \E n \in {EntryPointName, "f"} : AddFunction(n, Uint8)
    \/ AddFunctionPrototype("f", Uint8)

SpecTable == Init /\ [][NextTable]_vars

-----------------------------------------------------------------------------
(* Properties of the declaration queue and the symbol table *)

DeclarationOps == {"declare_local", "declare_parameter", "add_label"}

NameInQueue(queue, n) == \E i \in 1..Len(queue) : queue[i].name = n

\* C3: a declare_local, declare_parameter or add_label call whose name equals
\* the name of any entry already in the declaration queue, whatever its
\* position (the most recently added entry included), fails with a
\* Declaration error and appends nothing to the queue.
C3_DuplicateDeclarationRejected ==
    [][ (call'.op \in DeclarationOps /\ NameInQueue(declaration_queue, call'.name))
            => (error' = "Declaration" /\ declaration_queue' = declaration_queue)
      ]_vars

\* C4: while no operation has failed, no two entries of the symbol table with
\* the same parent (two parent-less entries share a parent) have equal names.
C4_UniqueNamesPerParent ==
    error = "none" =>
        \A i, j \in 1..Len(symbol_table) :
            (i # j /\ symbol_table[i].parent = symbol_table[j].parent)
                => symbol_table[i].name # symbol_table[j].name

RoleEntries(table, n, roles) ==
    {i \in 1..Len(table) : table[i].name = n /\ table[i].type.base \in roles}

FunctionRoles == {"Function", "FunctionPrototype", "EntryPoint", "SharedFunction"}

\* C5: at most one symbol of a function role exists per name; a prototype for
\* a name that already has a function-role symbol and a definition for a name
\* that has a Function, EntryPoint or SharedFunction symbol fail with a
\* Declaration error; a definition of a name that has a prototype turns that
\* entry into a Function in place and adds no second function-role entry.
C5_OneFunctionSymbolPerName ==
    /\ [](\A i \in 1..Len(symbol_table) :
            Cardinality(RoleEntries(symbol_table, symbol_table[i].name,
                                    FunctionRoles)) <= 1)
    /\ [][ LET n == call'.name
               before == RoleEntries(symbol_table, n, FunctionRoles)
               after == RoleEntries(symbol_table', n, FunctionRoles)
           IN /\ (call'.op = "declare_function_prototype" /\ before # {})
                    => (error' = "Declaration" /\ after = before)
              /\ (call'.op = "define_function"
                    /\ RoleEntries(symbol_table, n, FunctionRoles
                                        \ {"FunctionPrototype"}) # {})
                    => (error' = "Declaration" /\ after = before)
              /\ (call'.op = "define_function" /\ error' = "none"
                    /\ RoleEntries(symbol_table, n, {"FunctionPrototype"}) # {})
                    => (/\ after = before
                        /\ \A i \in after : symbol_table'[i].type.base = "Function")
         ]_vars

\* A definition has promoted a prototype in place: the Function entry is
\* followed by an entry of its own, which a direct definition never produces
C5_Witness ==
    /\ error = "none"
    /\ call.op = "define_function"
    /\ \E i \in 1..(Len(symbol_table) - 1) :
        /\ symbol_table[i].type.base = "Function"
        /\ symbol_table[i].name = call.name
        /\ symbol_table[i + 1].parent = call.name

NumEntryPoints(table) == Cardinality({i \in 1..Len(table) :
                                        table[i].type.base = "EntryPoint"})

\* C6: defining Main succeeds, inserting exactly one EntryPoint symbol, exactly
\* when no parameter is queued, the return type is Uint8 with pointer depth 0
\* and Main is not yet defined; otherwise it fails with a Declaration error
\* and inserts no EntryPoint; the table never holds more than one EntryPoint.
C6_EntryPointShape ==
    /\ [](NumEntryPoints(symbol_table) <= 1)
    /\ [][ (call'.op = "define_function" /\ call'.name = "Main") =>
            LET shape == /\ parameter_count = 0
                         /\ call'.type.base = "Uint8"
                         /\ call'.type.pointer = 0
            IN IF shape /\ NumEntryPoints(symbol_table) = 0
               THEN /\ error' = "none"
                    /\ NumEntryPoints(symbol_table') = 1
               ELSE /\ error' = "Declaration"
                    /\ NumEntryPoints(symbol_table') = NumEntryPoints(symbol_table)
         ]_vars

C6_Witness ==
    /\ error = "none"
    /\ call.op = "define_function" /\ call.name = "Main"
    /\ NumEntryPoints(symbol_table) = 1
-----------------------------------------------------------------------------
(* DosExeEmitter.cpp: the variables the emitter resolves names against *)

TypeIsValid(t) ==
    \/ t.base \in {"Uint8", "Uint16", "Uint32", "Bool", "String"}
    \/ t.base = "Void" /\ t.pointer > 0

\* CreateVariableList: one descriptor per entry of a valid type, in table order
CreateVariableList(table) == SelectSeq(table, LAMBDA e : TypeIsValid(e.type))

Unreachable == [name |-> "ThrowOnUnreachableCode"]

\* FindVariableByName inside the function named pnt: the first variable of
\* that function with the name, else the first parent-less one, else the
\* lookup throws.
FindVariableByName(table, pnt, n) ==
    LET variables == CreateVariableList(table)
        local == {i \in 1..Len(variables) :
                    variables[i].parent = pnt /\ variables[i].name = n}
        static == {i \in 1..Len(variables) :
                    variables[i].parent = nullptr /\ variables[i].name = n}
    IN IF local # {} THEN variables[Min(local)]
       ELSE IF static # {} THEN variables[Min(static)]
       ELSE Unreachable

-----------------------------------------------------------------------------
(* A function declared by a prototype and then defined *)

PrototypeReturnTypes == {Void, Uint8}

NextProto ==
    \/ \E n \in VariableNames, t \in ParameterTypes :
            QueueBelow(MaxDeclarations) /\ ToParameterList(t, n)
    \/ QueueBelow(MaxDeclarations) /\ ToDeclarationList(Uint16, 0, "c", "Variable")
    \/ \E rt \in PrototypeReturnTypes : AddFunctionPrototype("f", rt)
    \/ \E rt \in PrototypeReturnTypes : AddFunction("f", rt)

SpecProto == Init /\ [][NextProto]_vars

\* The k-th parameter a prototype of n was declared with
PrototypeParameter(table, n, k) ==
    CHOOSE e \in {table[i] : i \in 1..Len(table)} : e.parent = n /\ e.parameter = k

\* C7: define_function for a name that has a FunctionPrototype fails with a
\* Declaration error when the parameter counts differ, the return types
\* differ, or the k-th queued parameter type differs from the prototype's
\* k-th parameter type for some k; when all match it succeeds and the
\* prototype entry becomes a Function.
C7_PrototypeMismatchRejected ==
    [][ LET n == call'.name
            p == FindPrototype(symbol_table, n)
            matches ==
                /\ parameter_count = symbol_table[p].parameter
                /\ call'.type = symbol_table[p].return_type
                /\ \A k \in 1..parameter_count :
                        declaration_queue[k].type
                            = PrototypeParameter(symbol_table, n, k).type
        IN (call'.op = "define_function" /\ p # 0) =>
              IF matches
              THEN /\ error' = "none"
                   /\ symbol_table'[p].type = SymbolType("Function", 0)
                   /\ symbol_table'[p].name = n
              ELSE error' = "Declaration"
      ]_vars

\* A definition with two parameters of different types has been accepted
\* against its prototype
C7_Witness ==
    /\ error = "none"
    /\ call.op = "define_function"
    /\ \E i \in 1..(Len(symbol_table) - 2) :
        /\ symbol_table[i].type.base = "Function"
        /\ symbol_table[i].name = call.name
        /\ symbol_table[i].parameter = 2
        /\ symbol_table[i + 1].parent = call.name
        /\ symbol_table[i + 2].parent = call.name
        /\ symbol_table[i + 1].type # symbol_table[i + 2].type

\* The symbol table without the prototype of n and its parameters
WithoutPrototype(table, n) ==
    SelectSeq(table, LAMBDA e :
        /\ e.parent # n
        /\ ~(e.name = n /\ e.type.base = "FunctionPrototype"))

\* What the emitter sees of a resolved name: the variable's type and its
\* parameter index
Resolved(table, pnt, n) ==
    LET v == FindVariableByName(table, pnt, n)
    IN IF v = Unreachable THEN v
       ELSE [name |-> v.name, type |-> v.type, parameter |-> v.parameter,
             parent |-> v.parent]

\* C8: prototype idempotence.  When a definition is accepted for a name that
\* has a prototype, every parameter and local of the definition resolves, in
\* the function's body, to the same variable (type and parameter index) as
\* after the same definition made without the prototype.
C8_PrototypeIdempotence ==
    [][ LET n == call'.name
            direct == DefineWithoutPrototype(WithoutPrototype(symbol_table, n),
                            n, call'.type, declaration_queue, parameter_count,
                            function_ip)
        IN (call'.op = "define_function" /\ error' = "none"
                /\ FindPrototype(symbol_table, n) # 0) =>
              \A k \in 1..Len(declaration_queue) :
                    Resolved(symbol_table', n, declaration_queue[k].name)
                        = Resolved(direct, n, declaration_queue[k].name)
      ]_vars
-----------------------------------------------------------------------------
(* Calls of declared, defined, shared and unknown functions *)

\* The operands a call passes: [name, type, exp_type] of a symbol
Operand(n, t, et) == [NewEntry(n) EXCEPT !.type = t, !.exp_type = et]

Actuals == {Operand("x", Uint8, "Variable"), Operand("y", Uint16, "Variable"),
            Operand("1", Uint16, "Constant")}

ActualLists == {<< >>} \cup {<< x >> : x \in Actuals}
                       \cup {<< x, y >> : x, y \in Actuals}

CalleeNames == {"f", EntryPointName, "PrintUint32", "g"}

\* The k-th parameter of a parameter list is named after its position
ParameterNameAt(k) == IF k = 1 THEN "a" ELSE IF k = 2 THEN "b" ELSE "c"

NextCall ==
    \/ \E t \in ParameterTypes :
            /\ QueueBelow(MaxDeclarations)
            /\ ToParameterList(t, ParameterNameAt(Len(declaration_queue) + 1))
    \/ AddFunctionPrototype("f", Void)
    \/ AddFunction("f", Void)
    \/ AddFunction(EntryPointName, Uint8)
    \/ \E n \in CalleeNames, actuals \in ActualLists :
            /\ Len(instruction_stream) + Len(actuals) <= MaxStream
            /\ PrepareForCall(n, actuals, Len(actuals))

SpecCall == Init /\ [][NextCall]_vars

\* The i-th formal parameter of the function named n
FormalParameter(table, n, i) ==
    CHOOSE e \in {table[k] : k \in 1..Len(table)} : e.parent = n /\ e.parameter = i

\* C9: lower_call(name, actuals, count) fails with a Statement error if name
\* is not a Function, FunctionPrototype or SharedFunction, if the callee's
\* parameter count differs from count, or if some actual i is not implicitly
\* castable to formal i; otherwise it appends exactly count Push entries, the
\* i-th one referencing the i-th actual, and nothing else.
C9_CallLowering ==
    [][ call'.op = "lower_call" =>
          LET n == call'.name
              actuals == call'.args
              count == Len(actuals)
              callees == RoleEntries(symbol_table, n,
                            {"Function", "FunctionPrototype", "SharedFunction"})
              accepted ==
                /\ callees # {}
                /\ \A c \in callees : symbol_table[c].parameter = count
                /\ \A i \in 1..count :
                        CanImplicitCast(FormalParameter(symbol_table, n, i).type,
                                        actuals[i].type, actuals[i].exp_type)
          IN IF accepted
             THEN /\ error' = "none"
                  /\ Len(instruction_stream') = Len(instruction_stream) + count
                  /\ SubSeq(instruction_stream', 1, Len(instruction_stream))
                        = instruction_stream
                  /\ \A i \in 1..count :
                        instruction_stream'[Len(instruction_stream) + i]
                            = [type |-> "Push", arg |-> actuals[i]]
             ELSE error' = "Statement"
      ]_vars

\* A call with two different actuals has been lowered
C9_Witness ==
    /\ error = "none"
    /\ call.op = "lower_call"
    /\ Len(call.args) = 2
    /\ call.args[1] # call.args[2]
    /\ instruction_stream[Len(instruction_stream)].type = "Push"
    /\ instruction_stream[Len(instruction_stream) - 1].type = "Push"
-----------------------------------------------------------------------------
(* Implicit casts between any two types *)

SymbolTypes == {SymbolType(BaseSymbolType[b], p) :
                    b \in 1..Len(BaseSymbolType), p \in 0..MaxPointer}

ExpressionType == {"None", "Constant", "Variable"}

InitCast ==
    /\ Init!1 /\ Init!2 /\ Init!3 /\ Init!4 /\ Init!5 /\ Init!6 /\ Init!7
    /\ Init!8 /\ Init!9 /\ Init!10 /\ Init!12
    /\ cast \in [to : SymbolTypes, from : SymbolTypes, type : ExpressionType,
                 result : {"unknown"}]

\* One evaluation of CanImplicitCast on the drawn types
ApplyCanImplicitCast ==
    /\ cast.result = "unknown"
    /\ cast' = [cast EXCEPT !.result =
                    IF CanImplicitCast(cast.to, cast.from, cast.type)
                    THEN "yes" ELSE "no"]
    /\ UNCHANGED << symbol_table, declaration_queue, parameter_count,
                    instruction_stream, function_ip, error, call, defined,
                    phase, emitter, compiler >>

NextCast == ApplyCanImplicitCast

SpecCast == InitCast /\ [][NextCast]_vars

Unsigned == {"Uint8", "Uint16", "Uint32"}

\* C10: can_implicit_cast(to, from, exp) answers yes exactly when (1) to
\* equals from, (2) from is a pointer and to is void*, (3) from is a constant
\* void* and to is a pointer, (4) exp is Constant and both types are Uint8,
\* Uint16 or Uint32 with pointer depth 0, or (5) both are non-pointer Bool,
\* Uint8, Uint16 or Uint32 and to.base >= from.base; and no otherwise.
C10_ImplicitCastRules ==
    LET to == cast.to
        from == cast.from
        rule1 == to = from
        rule2 == from.pointer > 0 /\ to = SymbolType("Void", 1)
        rule3 == /\ cast.type = "Constant" /\ from = SymbolType("Void", 1)
                 /\ to.pointer > 0
        rule4 == /\ cast.type = "Constant"
                 /\ from.base \in Unsigned /\ from.pointer = 0
                 /\ to.base \in Unsigned /\ to.pointer = 0
        rule5 == /\ from.pointer = 0 /\ to.pointer = 0
                 /\ from.base \in Unsigned \cup {"Bool"}
                 /\ to.base \in Unsigned \cup {"Bool"}
                 /\ BaseOrd(to.base) >= BaseOrd(from.base)
    IN cast.result # "unknown" =>
        (cast.result = "yes" <=> (rule1 \/ rule2 \/ rule3 \/ rule4 \/ rule5))
\* The non-pointer types the widening order Bool < Uint8 < Uint16 < Uint32
\* is about
IntegerOrder == {"Bool", "Uint8", "Uint16", "Uint32"}

\* A conversion between non-pointer types of the order to a smaller one
Narrowing(to, from) ==
    /\ to.pointer = 0 /\ from.pointer = 0
    /\ to.base \in IntegerOrder /\ from.base \in IntegerOrder
    /\ BaseOrd(to.base) < BaseOrd(from.base)

\* C11 as stated: can_implicit_cast(t, t, e) is yes for every type and
\* expression kind, and for non-pointer types in the order Bool < Uint8 <
\* Uint16 < Uint32 the answer is no whenever to.base < from.base, whatever the
\* expression kind.
C11_ReflexiveNeverNarrows ==
    cast.result # "unknown" =>
        /\ cast.to = cast.from => cast.result = "yes"
        /\ Narrowing(cast.to, cast.from) => cast.result = "no"

\* C11: can_implicit_cast(t, t, e) is yes for every type and expression
\* kind, and a narrowing conversion between non-pointer types of the order
\* Bool < Uint8 < Uint16 < Uint32 is answered yes exactly when the expression
\* is a Constant and both types are Uint8, Uint16 or Uint32; a Variable or
\* None expression is never narrowed.
C11_ReflexiveNarrowsConstantsOnly ==
    cast.result # "unknown" =>
        /\ cast.to = cast.from => cast.result = "yes"
        /\ Narrowing(cast.to, cast.from) =>
            (cast.result = "yes" <=>
                /\ cast.type = "Constant"
                /\ cast.to.base \in Unsigned /\ cast.from.base \in Unsigned)

\* A Variable of type Uint16 was refused for a Uint8
C11_Witness ==
    /\ cast.result = "no"
    /\ cast.type = "Variable"
    /\ cast.to = SymbolType("Uint8", 0)
    /\ cast.from = SymbolType("Uint16", 0)

-----------------------------------------------------------------------------
(* Compiler.cpp: temporary variables *)

Digits == << "0", "1", "2", "3", "4", "5", "6", "7", "8", "9" >>

\* The text sprintf_s writes for "%d"
RECURSIVE ToDecimal(_)
ToDecimal(n) ==
    IF n < 10 THEN Digits[n + 1]
    ELSE ToDecimal(n \div 10) \o Digits[(n % 10) + 1]

\* The counters after the switch of GetUnusedVariable and the name it
\* prints into buffer; the String case prints var_count_uint32
UnusedVariableName(c, base) ==
    CASE base = "Bool" ->
            [counters |-> [c EXCEPT !.var_count_bool = @ + 1],
             buffer |-> "#b_" \o ToDecimal(c.var_count_bool + 1)]
      [] base = "Uint8" ->
            [counters |-> [c EXCEPT !.var_count_uint8 = @ + 1],
             buffer |-> "#ui8_" \o ToDecimal(c.var_count_uint8 + 1)]
      [] base = "Uint16" ->
            [counters |-> [c EXCEPT !.var_count_uint16 = @ + 1],
             buffer |-> "#ui16_" \o ToDecimal(c.var_count_uint16 + 1)]
      [] base = "Uint32" ->
            [counters |-> [c EXCEPT !.var_count_uint32 = @ + 1],
             buffer |-> "#ui32_" \o ToDecimal(c.var_count_uint32 + 1)]
      [] base = "String" ->
            [counters |-> [c EXCEPT !.var_count_string = @ + 1],
             buffer |-> "#s_" \o ToDecimal(c.var_count_uint32)]
      [] OTHER -> [counters |-> c, buffer |-> nullptr]

\* GetUnusedVariable: the counter is incremented before ToDeclarationList
\* scans the queue, so it stays incremented when the scan throws
GetUnusedVariable(t) ==
    LET named == UnusedVariableName(compiler, t.base)
    IN /\ Parsing
       /\ Invoke("get_unused_variable", named.buffer, t, << >>)
       /\ compiler' = named.counters
       /\ IF named.buffer = nullptr
          THEN error' = "Compilation" /\ UNCHANGED declaration_queue
          ELSE Enqueue([NewEntry(named.buffer) EXCEPT
                            !.type = t, !.size = 0, !.exp_type = "Variable",
                            !.is_temp = TRUE])
       /\ UNCHANGED << symbol_table, parameter_count, instruction_stream,
                       function_ip, defined, phase, emitter, cast >>

TemporaryTypes == {"Bool", "Uint8", "Uint16", "Uint32", "String"}

\* Temporaries requested in the body of a function, which AddFunction closes
NextTemp ==
    \/ \E b \in TemporaryTypes :
            QueueBelow(MaxTemps) /\ GetUnusedVariable(SymbolType(b, 0))
    \/ QueueBelow(MaxTemps) /\ ToDeclarationList(Uint8, 0, "a", "Variable")
    \/ AddFunction("f", Void)

SpecTemp == Init /\ [][NextTemp]_vars

\* The prefix of the names of the temporaries of a type
TempPrefix(base) ==
    CASE base = "Bool" -> "#b_" [] base = "Uint8" -> "#ui8_"
      [] base = "Uint16" -> "#ui16_" [] base = "Uint32" -> "#ui32_"
      [] base = "String" -> "#s_"

\* The temporaries queued for the function being parsed
Temporaries == {i \in 1..Len(declaration_queue) : declaration_queue[i].is_temp}

\* C12: every call of get_unused_variable(T) for a primitive type T succeeds;
\* the temporaries queued within one function have pairwise distinct names,
\* each made of the prefix of its type and a number, and each call appends
\* its temporary, marked is_temp, to the declaration queue.
C12_UnusedVariableNames ==
    /\ call.op = "get_unused_variable" =>
        /\ error = "none"
        /\ declaration_queue # << >>
        /\ declaration_queue[Len(declaration_queue)].is_temp
        /\ declaration_queue[Len(declaration_queue)].name = call.name
        /\ declaration_queue[Len(declaration_queue)].type = call.type
    /\ \A i \in Temporaries :
        /\ \E k \in 0..(2 * MaxTemps) :
                declaration_queue[i].name
                    = TempPrefix(declaration_queue[i].type.base) \o ToDecimal(k)
        /\ \A j \in Temporaries :
                declaration_queue[i].name = declaration_queue[j].name => i = j

-----------------------------------------------------------------------------
(* Compiler.cpp: break and continue scopes *)

ScopeType == {"Break", "Continue"}

\* break_scope / break_list or continue_scope / continue_list
ScopeOf(c, type) == IF type = "Break" THEN c.break_scope ELSE c.continue_scope
ListOf(c, type) == IF type = "Break" THEN c.break_list ELSE c.continue_list

WithScope(c, type, scope, list) ==
    IF type = "Break" THEN [c EXCEPT !.break_scope = scope, !.break_list = list]
    ELSE [c EXCEPT !.continue_scope = scope, !.continue_list = list]

\* MergeLists that returns its first list and loses the second
MergeLists_FirstOnly(a, b) == a

\* A BackpatchList is the sequence of the IPs of its entries, nullptr the
\* empty one.  MergeLists(a, b) appends b to a.
MergeLists(a, b) == a \o b

\* The vector element at a 0-based index
At(list, index) == list[index + 1]

\* IncreaseScope: the scope index goes up and a null list is pushed
IncreaseScope(type) ==
    /\ Parsing
    /\ Invoke("increase_scope", type, SymbolType("None", 0), << >>)
    /\ compiler' =
        [WithScope(compiler, type, ScopeOf(compiler, type) + 1,
                   Append(ListOf(compiler, type), << >>))
            EXCEPT !.scope_history[type] = Append(@, {})]
    /\ UNCHANGED << symbol_table, declaration_queue, parameter_count,
                    instruction_stream, function_ip, error, defined, phase,
                    emitter, cast >>

\* BackpatchStream: every entry of the list gets new_ip as its target
BackpatchStream(stream, list, new_ip) ==
    [k \in 1..Len(stream) |->
        IF \E j \in 1..Len(list) : list[j] = k - 1
        THEN [stream[k] EXCEPT !.arg = new_ip]
        ELSE stream[k]]

\* BackpatchScope; the vector keeps its element, set to null.  It is called
\* at the end of a loop, so with a scope open.  The call records new_ip and
\* the IPs BackpatchStream wrote.
BackpatchScope(type, new_ip) ==
    LET scope == ScopeOf(compiler, type)
        lists == ListOf(compiler, type)
        list == At(lists, scope)
    IN /\ Parsing
       /\ scope >= 0
       /\ Invoke("backpatch_scope", type, SymbolType("None", 0),
                 << new_ip, list >>)
       /\ instruction_stream' = BackpatchStream(instruction_stream, list, new_ip)
       /\ compiler' =
            [WithScope(compiler, type, scope - 1,
                       [lists EXCEPT ![scope + 1] = << >>])
                EXCEPT !.scope_history[type] = SubSeq(@, 1, Len(@) - 1)]
       /\ UNCHANGED << symbol_table, declaration_queue, parameter_count,
                       function_ip, error, defined, phase, emitter, cast >>

\* "list_size == 0 || list_size == break_scope - 1": list_size is unsigned,
\* so a negative right-hand side wraps and equals no vector size
PushesBack(lists, scope) ==
    Len(lists) = 0 \/ (scope - 1 >= 0 /\ Len(lists) = scope - 1)

\* AddToStreamWithBackpatch(itype) followed by AddToScopeList(type, backpatch)
\* on the handle it returned, as a break or continue statement does; the
\* call records the handle and what AddToScopeList returned.
AddToScopeList(type, itype) ==
    LET scope == ScopeOf(compiler, type)
        lists == ListOf(compiler, type)
        backpatch == << NextIp >>
    IN /\ Parsing
       /\ instruction_stream' = AddToStream(instruction_stream, itype, 0)
       /\ Invoke("add_to_scope_list", type, SymbolType("None", 0),
                 << NextIp, scope >= 0 >>)
       /\ compiler' =
            IF scope < 0 THEN compiler
            ELSE [WithScope(compiler, type, scope,
                    IF PushesBack(lists, scope) THEN Append(lists, backpatch)
                    ELSE [lists EXCEPT ![scope + 1] = MergeLists(backpatch, @)])
                    EXCEPT !.scope_history[type] =
                        [@ EXCEPT ![Len(@)] = @ \cup {NextIp}]]
       /\ UNCHANGED << symbol_table, declaration_queue, parameter_count,
                       function_ip, error, defined, phase, emitter, cast >>

\* The vectors never shrink: their size is the number of scopes of the kind
\* opened so far
ScopeBelow(type, bound) == Len(ListOf(compiler, type)) < bound

\* Loops and the break and continue statements in them
NextScope ==
    \/ \E type \in ScopeType : ScopeBelow(type, MaxScope) /\ IncreaseScope(type)
    \/ \E type \in ScopeType, itype \in {"Goto", "If"} :
            StreamBelow(MaxHandles + 1) /\ AddToScopeList(type, itype)
    \/ \E type \in ScopeType, new_ip \in {1, NextIp} :
            BackpatchScope(type, new_ip)

SpecScope == Init /\ [][NextScope]_vars

\* The handles registered so far in scopes of a kind that are still open
Pending(c, type) ==
    UNION {c.scope_history[type][k] : k \in 1..Len(c.scope_history[type])}

\* The entries of the stream whose target differs after the step
Rewritten ==
    {ip \in 0..(Len(instruction_stream) - 1) :
        instruction_stream'[ip + 1] # instruction_stream[ip + 1]}

\* C13: BackpatchScope writes new_ip to exactly the handles AddToScopeList
\* registered while the scope it closes was the innermost open one of its
\* kind, and to no handle of an enclosing scope, of a scope closed before or
\* of the other kind; no other call changes an entry of the stream;
\* AddToScopeList with no open scope returns false and registers nothing.
C13_ScopeBackpatching ==
    [][/\ call'.op = "backpatch_scope" =>
            LET type == call'.name
                closing == compiler.scope_history[type]
                                [Len(compiler.scope_history[type])]
            IN /\ {call'.args[2][j] : j \in 1..Len(call'.args[2])} = closing
               /\ \A ip \in closing :
                    instruction_stream'[ip + 1].arg = call'.args[1]
               /\ Rewritten \subseteq closing
               /\ Len(instruction_stream') = Len(instruction_stream)
       /\ call'.op = "increase_scope" =>
            instruction_stream' = instruction_stream
       /\ call'.op = "add_to_scope_list" =>
            /\ Rewritten = {}
            /\ call'.args[2] = (ScopeOf(compiler, call'.name) >= 0)
            /\ ~call'.args[2] =>
                    /\ ListOf(compiler', call'.name) = ListOf(compiler, call'.name)
            /\ call'.args[2] =>
                    \E k \in 1..Len(ListOf(compiler', call'.name)) :
                        \E j \in 1..Len(ListOf(compiler', call'.name)[k]) :
                            ListOf(compiler', call'.name)[k][j] = call'.args[1]
      ]_vars

\* A scope with a registered handle was closed inside a scope that still
\* holds one of its own
C13_Witness ==
    /\ call.op = "backpatch_scope"
    /\ call.args[2] # << >>
    /\ Pending(compiler, call.name) # {}
    /\ error = "none"

-----------------------------------------------------------------------------
(* Compiler.cpp: call and return statements, reachability *)

GetFunction(table, n) == FindCallee(table, n)

\* A call statement without arguments: PrepareForCall accepts it and the Call
\* entry's target is the symbol GetFunction finds (its index in the table)
AddCall(n) ==
    LET target == GetFunction(symbol_table, n)
    IN /\ Parsing
       /\ target # 0
       /\ symbol_table[target].parameter = 0
       /\ Invoke("call", n, SymbolType("None", 0), << >>)
       /\ instruction_stream' = AddToStream(instruction_stream, "Call", target)
       /\ UNCHANGED << symbol_table, declaration_queue, parameter_count,
                       function_ip, error, defined, phase, emitter, cast,
                       compiler >>

\* The operand of "return 0;" and of "return;"
InstructionOperand(v, t, et) == [value |-> v, type |-> t, exp_type |-> et]

ReturnOperands == {InstructionOperand("0", Uint8, "Constant"),
                   InstructionOperand("", Void, "None")}

AddReturn(op) ==
    /\ Parsing
    /\ Invoke("return", nullptr, op.type, << >>)
    /\ instruction_stream' = AddToStream(instruction_stream, "Return", op)
    /\ UNCHANGED << symbol_table, declaration_queue, parameter_count,
                    function_ip, error, defined, phase, emitter, cast,
                    compiler >>

\* "symbol->ip == ip && (Function || EntryPoint)"
FunctionStartsAt(table, ip) ==
    \E i \in 1..Len(table) :
        /\ table[i].ip = ip
        /\ table[i].type.base \in {"Function", "EntryPoint"}

\* "Fix IP of first function"
FixFirstFunctionIp(table) ==
    LET S == {i \in 1..Len(table) :
                /\ table[i].parent = nullptr
                /\ table[i].type.base \in {"Function", "EntryPoint"}
                /\ table[i].ip = 0}
    IN IF S = {} THEN table ELSE [table EXCEPT ![Min(S)].ip = 1]

FindEntryPoint(table) ==
    LET S == {i \in 1..Len(table) :
                table[i].parent = nullptr /\ table[i].type.base = "EntryPoint"}
    IN IF S = {} THEN 0 ELSE Min(S)

\* The inner while loop of the dependency walk, from ip_current on; the
\* function-boundary test is made only when ip_current differs from ip_start
RECURSIVE WalkFunction(_, _, _, _, _)
WalkFunction(stream, table, stack, ip_start, ip_current) ==
    IF ip_current >= Len(stream)
    THEN [table |-> table, stack |-> stack]
    ELSE IF ip_current # ip_start /\ FunctionStartsAt(table, ip_current)
    THEN [table |-> table, stack |-> stack]
    ELSE LET current == stream[ip_current + 1]
         IN IF current.type # "Call"
            THEN WalkFunction(stream, table, stack, ip_start, ip_current + 1)
            ELSE IF table[current.arg].type.base = "SharedFunction"
            THEN WalkFunction(stream,
                    [table EXCEPT ![current.arg].ref_count = @ + 1],
                    stack, ip_start, ip_current + 1)
            ELSE WalkFunction(stream, table, Append(stack, current.arg),
                              ip_start, ip_current + 1)

\* The do-while loop over dependency_stack; the top of the stack is its
\* last element
RECURSIVE WalkDependencies(_, _, _)
WalkDependencies(stream, table, stack) ==
    IF stack = << >> THEN table
    ELSE LET symbol == stack[Len(stack)]
             rest == SubSeq(stack, 1, Len(stack) - 1)
         IN IF table[symbol].ref_count > 0
            THEN WalkDependencies(stream, table, rest)
            ELSE LET walked ==
                        WalkFunction(stream,
                            [table EXCEPT ![symbol].ref_count = @ + 1],
                            rest, table[symbol].ip, table[symbol].ip)
                 IN WalkDependencies(stream, walked.table, walked.stack)

\* Runs when the parser has consumed the whole input: nothing is queued and
\* the last instruction closes a function definition.
PostprocessSymbolTable ==
    LET fixed == FixFirstFunctionIp(symbol_table)
        entry_point == FindEntryPoint(fixed)
    IN /\ Parsing
       /\ declaration_queue = << >>
       /\ function_ip = NextIp
       /\ phase' = "post"
       /\ IF entry_point = 0
          THEN /\ symbol_table' = fixed
               /\ error' = "Compilation"
          ELSE /\ symbol_table' =
                    WalkDependencies(instruction_stream, fixed, << entry_point >>)
               /\ UNCHANGED error
       /\ UNCHANGED << declaration_queue, parameter_count, instruction_stream,
                       function_ip, call, defined, emitter, cast, compiler >>

-----------------------------------------------------------------------------
(* GenericEmitter.cpp, i386Emitter.cpp, DosExeEmitter.cpp: emission *)

\* AllocateBuffer advances buffer_offset
AllocateBuffer(e, size) == [e EXCEPT !.buffer_offset = @ + size]

AllocateBufferForInstruction(e, size) ==
    AllocateBuffer([e EXCEPT !.ip_dst = @ + size], size)

\* "ip_src_to_dst[ip]" of a std::map: 0 for an IP that has no entry yet
IpSrcToDst(e, ip) ==
    IF ip \in DOMAIN e.ip_src_to_dst THEN e.ip_src_to_dst[ip] ELSE 0

\* Conversions to the signed types the operands are stored as
ToInt8(x) == ((x + 128) % 256) - 128
ToInt16(x) == ((x + 32768) % 65536) - 32768

DosBackpatchInstruction(type, target, offset, ip, src, v) ==
    [type |-> type, target |-> target, backpatch_offset |-> offset,
     backpatch_ip |-> ip, ip_src |-> src, value |-> v]

OutOfRel8_Never(rel) == FALSE

\* "rel8 < INT8_MIN || rel8 > INT8_MAX"
OutOfRel8(rel) == rel < -128 \/ rel > 127

\* The operand a backpatch entry gets for the destination address dst
BackpatchValue(b, dst) ==
    CASE b.type = "ToRel8" -> ToInt8(dst - b.backpatch_ip)
      [] b.type = "ToRel16" -> ToInt16(dst - b.backpatch_ip)
      [] b.type = "ToDsAbs16" -> ToInt16(ToInt16(dst) + 256)
      [] b.type = "ToStack8" -> ToInt8(dst)

\* The loop shared by BackpatchAddresses and BackpatchLabels over the
\* entries with an index in S: a ToRel8 entry out of range throws, every
\* other entry has its operand stored in the buffer and is erased
Backpatch(e, S, dst) ==
    IF \E k \in S : /\ e.backpatch[k].type = "ToRel8"
                    /\ OutOfRel8(dst - e.backpatch[k].backpatch_ip)
    THEN [e EXCEPT !.error = "Compilation"]
    ELSE [e EXCEPT
            !.buffer = [o \in DOMAIN e.buffer
                            \cup {e.backpatch[k].backpatch_offset : k \in S} |->
                        IF \E k \in S : e.backpatch[k].backpatch_offset = o
                        THEN BackpatchValue(
                                e.backpatch[CHOOSE k \in S :
                                    e.backpatch[k].backpatch_offset = o], dst)
                        ELSE e.buffer[o]],
            !.backpatch = SelectSeq(@, LAMBDA b :
                            \A k \in S : e.backpatch[k] # b)]

\* BackpatchAddresses: the IP entries that wait for the current ip_src
BackpatchAddresses(e) ==
    Backpatch(e, {k \in 1..Len(e.backpatch) :
                    /\ e.backpatch[k].target = "IP"
                    /\ e.backpatch[k].ip_src = e.ip_src},
              IpSrcToDst(e, e.ip_src))

\* CheckBackpatchListIsEmpty: ThrowOnUnreachableCode for the targets that
\* have no message
CheckBackpatchListIsEmpty(e, target) ==
    IF \E k \in 1..Len(e.backpatch) : e.backpatch[k].target = target
    THEN [e EXCEPT !.error = IF target \in {"Function", "String"}
                             THEN "Statement" ELSE "Compilation",
                   !.unresolved = target]
    ELSE e

\* "ip_src_to_dst[ip_src] = ip_dst"
MapIpSrcToDst(e) ==
    [e EXCEPT !.ip_src_to_dst = (e.ip_src :> e.ip_dst) @@ @,
              !.mapped = Append(@, [ip_src |-> e.ip_src, ip_dst |-> e.ip_dst,
                                    parent |-> e.parent,
                                    variables |-> e.variables])]

AsmProcEnter(e) == AllocateBufferForInstruction(e, 2 + 3)

AsmProcLeaveNoArgs(e, retn_imm16) ==
    IF retn_imm16 > 0 THEN AllocateBufferForInstruction(e, 1 + 2)
    ELSE AllocateBufferForInstruction(e, 1)

AsmProcLeave(e, retn_imm16, restore_sp) ==
    AsmProcLeaveNoArgs(
        AllocateBufferForInstruction(
            IF restore_sp THEN AllocateBufferForInstruction(e, 3) ELSE e, 2),
        retn_imm16)

\* AsmInt(imm8, ah_imm8)
AsmInt(e) == AllocateBufferForInstruction(e, 1 + 1 + 1 + 1)

TypeIsVoid(t) == t.base = "Void" /\ t.pointer = 0

GetLargestTypeForArithmetic(a, b) ==
    LET Max(x, y) == IF x >= y THEN x ELSE y
    IN IF ~TypeIsValid(a) \/ ~TypeIsValid(b) THEN SymbolType("Unknown", 0)
       ELSE IF a.base = "String" \/ b.base = "String" THEN SymbolType("Unknown", 0)
       ELSE IF a.base = "Uint32" \/ b.base = "Uint32"
       THEN SymbolType("Uint32", Max(a.pointer, b.pointer))
       ELSE IF a.base = "Uint16" \/ b.base = "Uint16"
       THEN SymbolType("Uint16", Max(a.pointer, b.pointer))
       ELSE IF a.base = "Uint8" \/ b.base = "Uint8"
       THEN SymbolType("Uint8", Max(a.pointer, b.pointer))
       ELSE SymbolType("Unknown", 0)

Raise(e, src) == [e EXCEPT !.error = src]

\* The operand EmitReturn sees when it is called with no instruction
GetSymbolTypeSize(t) ==
    IF t.pointer > 0 THEN 2
    ELSE CASE t.base \in {"Bool", "Uint8"} -> 1
           [] t.base = "Uint16" -> 2
           [] t.base = "Uint32" -> 4
           [] t.base = "String" -> 2

(***************************************************************************)
(* DosExeEmitter.cpp: the variable descriptors and the register allocator. *)
(* A register is the number the encoding gives it.  machine, values and    *)
(* allocations are not fields of the emitter: machine is the state the     *)
(* instructions emitted so far leave the processor in when they run in the *)
(* order they were emitted (the low and the high byte of AX, CX, DX and    *)
(* BX, and the memory slot of every variable), values is what the          *)
(* intermediate code computes for every variable, and allocations lists    *)
(* the calls of GetUnusedRegister and TryGetUnusedRegister.  Unknown is a  *)
(* byte or value nothing has been written to.                              *)
(***************************************************************************)

\* Only({F(bound) : bound \in {x}}) is F(x) with x evaluated once
Only(S) == CHOOSE r \in S : TRUE

UnknownRegister == [lo |-> Unknown, hi |-> Unknown]

\* The part of a value a variable of the size holds
Truncate(v, size) ==
    IF v = Unknown THEN Unknown
    ELSE IF size = 1 THEN v % 256 ELSE v % 65536

ReadRegister(e, reg, size) ==
    LET r == e.machine.reg[reg + 1]
    IN IF size = 1 THEN r.lo
       ELSE IF r.lo = Unknown \/ r.hi = Unknown THEN Unknown
       ELSE r.hi * 256 + r.lo

WriteRegister(e0, reg, v, size) ==
    Only({[e EXCEPT !.machine.reg[reg + 1] =
            IF size = 1 THEN [@ EXCEPT !.lo = Truncate(v, 1)]
            ELSE IF v = Unknown THEN UnknownRegister
            ELSE [lo |-> v % 256, hi |-> (v \div 256) % 256]] : e \in {e0}})

\* "mov [variable], reg" and "mov reg, [variable]" at the size of the
\* variable, as the processor executes them
WriteMemory(e0, k, reg) ==
    Only({[e EXCEPT !.machine.mem[k] =
            ReadRegister(e, reg, GetSymbolTypeSize(e.variables[k].symbol.type))]
    : e \in {e0}})

ReadMemory(e, k) == e.machine.mem[k]

\* The record of an instruction that reads the variable as an operand, at
\* the size: what it reads and the value the variable has
Read(e, k, got, size) ==
    [e EXCEPT !.reads = Append(@, [ip_src |-> e.ip_src, variable |-> k,
                                   got |-> got,
                                   value |-> Truncate(e.values[k], size)])]

\* The record of an arithmetic instruction
Computed(e) == [e EXCEPT !.arithmetic = Append(@, e.ip_src)]

DosVariableDescriptor(symbol) ==
    [symbol |-> symbol, reg |-> CpuRegisterNone, location |-> 0,
     last_used |-> 0, is_dirty |-> FALSE, force_save |-> FALSE]

\* The list CreateVariableList builds: a descriptor for every symbol of a
\* valid type, in the order of the symbol table
CreateDescriptors(e, table) ==
    LET symbols == SelectSeq(table, LAMBDA s : TypeIsValid(s.type))
        variables == [k \in 1..Len(symbols) |-> DosVariableDescriptor(symbols[k])]
    IN [e EXCEPT !.variables = variables,
                 !.values = [k \in 1..Len(symbols) |-> Unknown],
                 !.machine = [reg |-> [r \in 1..4 |-> UnknownRegister],
                              mem |-> [k \in 1..Len(symbols) |-> Unknown]]]

\* The name of the function being emitted
ParentName(e, table) == IF e.parent = 0 THEN nullptr ELSE table[e.parent].name

\* "!it->symbol->parent || strcmp(it->symbol->parent, parent->name) == 0":
\* the variable is a static or belongs to the function being emitted
InScope(e, table, k) ==
    \/ e.variables[k].symbol.parent = nullptr
    \/ e.variables[k].symbol.parent = ParentName(e, table)

\* FindVariableByName on the descriptors: the local of the function with
\* the name, else the static with the name; 0 stands for
\* ThrowOnUnreachableCode
FindDescriptor(e, table, name) ==
    LET locals == {k \in 1..Len(e.variables) :
                    /\ e.variables[k].symbol.parent # nullptr
                    /\ e.variables[k].symbol.parent = ParentName(e, table)
                    /\ e.variables[k].symbol.name = name}
        statics == {k \in 1..Len(e.variables) :
                    /\ e.variables[k].symbol.parent = nullptr
                    /\ e.variables[k].symbol.name = name}
    IN IF locals # {} THEN Min(locals)
       ELSE IF statics # {} THEN Min(statics)
       ELSE 0

\* RefreshParentEndIp: the IP before the start of the next function, or
\* the last IP of the stream
RefreshParentEndIp(e0, table, stream) ==
    Only({LET S == {ip \in e.ip_src..(Len(stream) - 2) : FunctionStartsAt(table, ip + 1)}
        IN [e EXCEPT !.parent_end_ip =
                IF S # {} THEN Min(S)
                ELSE IF Len(stream) - 1 > e.ip_src THEN Len(stream) - 1
                ELSE e.ip_src] : e \in {e0}})

\* An operand of an instruction names the variable
NamesVariable(op, name) ==
    op.exp_type = "Variable" /\ op.value # nullptr /\ op.value = name

\* An Assign entry with operands; the entries without them stand for
\* assignments that bind no register
IsAssignment(i) == i.type = "Assign" /\ "dst_value" \in DOMAIN i

\* The instruction "current_instruction" points to is the one at ip_src;
\* it is null from the end of the stream on
CurrentIsNull(e, stream) == e.ip_src >= Len(stream)

\* What FindNextVariableReference decides at one instruction: "found",
\* "none" (return nullptr) or "next" (keep searching)
ReferenceAt(e, i, symbol) ==
    LET backwards == IF symbol.is_temp THEN "none" ELSE "found"
    IN IF IsAssignment(i)
       THEN IF \/ NamesVariable(i.op1, symbol.name)
               \/ NamesVariable(i.op2, symbol.name)
               \/ /\ i.dst_index # nullptr
                  /\ (symbol.name = i.dst_value \/ symbol.name = i.dst_index)
            THEN "found" ELSE "next"
       ELSE IF i.type = "If"
       THEN IF NamesVariable(i.op1, symbol.name) \/ NamesVariable(i.op2, symbol.name)
            THEN "found"
            ELSE IF i.arg < e.ip_src THEN backwards
            ELSE "next"
       ELSE IF i.type = "Goto"
       THEN IF i.arg < e.ip_src THEN backwards ELSE "next"
       ELSE IF i.type = "GotoLabel"
       THEN IF \E j \in 1..Len(e.labels) : e.labels[j].name = i.arg
            THEN backwards ELSE "next"
       ELSE IF i.type = "Push"
       THEN IF i.arg.exp_type = "Variable" /\ i.arg.name = symbol.name
            THEN "found" ELSE "next"
       ELSE IF i.type = "Return"
       THEN IF i.arg.exp_type = "Variable" /\ i.arg.value = symbol.name
            THEN "found" ELSE "next"
       ELSE "next"

\* FindNextVariableReference(var, reason) # nullptr: the search from the
\* instruction at ip to parent_end_ip
RECURSIVE FindReferenceFrom(_, _, _, _)
FindReferenceFrom(e, stream, symbol, ip) ==
    IF ip >= Len(stream) \/ ip > e.parent_end_ip THEN FALSE
    ELSE LET at == ReferenceAt(e, stream[ip + 1], symbol)
         IN IF at = "found" THEN TRUE
            ELSE IF at = "none" THEN FALSE
            ELSE FindReferenceFrom(e, stream, symbol, ip + 1)

FindNextVariableReference(e, stream, k, reason) ==
    IF reason = "Force" THEN ~CurrentIsNull(e, stream)
    ELSE FindReferenceFrom(e, stream, e.variables[k].symbol,
            IF reason = "Inside" /\ ~CurrentIsNull(e, stream)
            THEN e.ip_src + 1 ELSE e.ip_src)

\* BackpatchLocal: the displacement is written at once when the location
\* of the variable is known, else it waits for the epilogue and the
\* reference is counted
BackpatchLocal(e0, offset, k) ==
    Only({IF e.variables[k].location = 0
        THEN [e EXCEPT
                !.backpatch = Append(@,
                    DosBackpatchInstruction("ToStack8", "Local", offset, 0, 0,
                                            e.variables[k].symbol.name)),
                !.variables[k].symbol.ref_count = @ + 1]
        ELSE [e EXCEPT !.buffer = (offset :> ToInt8(e.variables[k].location)) @@ @]
    : e \in {e0}})

BackpatchStatic(e0, offset, k) ==
    Only({[e EXCEPT !.backpatch = Append(@,
            DosBackpatchInstruction("ToDsAbs16", "Static", offset, 0, 0,
                                    e.variables[k].symbol.name))] : e \in {e0}})

\* An instruction with the variable as its memory operand: opcode bytes of
\* the given length, then the 8-bit displacement of a local or the 16-bit
\* address of a static
WithMemoryOperand(e0, k, length) ==
    Only({IF e.variables[k].symbol.parent # nullptr
        THEN BackpatchLocal(AllocateBufferForInstruction(e, length + 1),
                            e.buffer_offset + length, k)
        ELSE BackpatchStatic(AllocateBufferForInstruction(e, length + 2),
                             e.buffer_offset + length, k) : e \in {e0}})

\* SaveVariable
SaveVariable(e0, stream, k, reason) ==
    Only({LET var == e.variables[k]
            var_size == GetSymbolTypeSize(var.symbol.type)
            stored == WriteMemory(
                        WithMemoryOperand(e, k, IF var_size = 4 THEN 3 ELSE 2),
                        k, var.reg)
        IN IF var.symbol.size > 0 THEN Raise(e, "Compilation")
           ELSE IF ~var.is_dirty THEN e
           ELSE IF /\ var.symbol.parent # nullptr
                   /\ ~var.force_save
                   /\ ~FindNextVariableReference(e, stream, k, reason)
           THEN e
           ELSE [stored EXCEPT !.variables[k].is_dirty = FALSE,
                               !.saves = Append(@, [variable |-> k,
                                                    ip_src |-> e.ip_src])]
    : e \in {e0}})

\* The first variable in scope that is bound to the register, or 0
FirstBound(e, table, reg) ==
    LET S == {k \in 1..Len(e.variables) :
                e.variables[k].reg = reg /\ InScope(e, table, k)}
    IN IF S = {} THEN 0 ELSE Min(S)

\* SaveAndUnloadRegister
SaveAndUnloadRegister(e0, table, stream, reg, reason) ==
    Only({LET k == FirstBound(e, table, reg)
        IN IF k = 0 THEN e
           ELSE [SaveVariable(e, stream, k, reason) EXCEPT
                    !.variables[k].reg = CpuRegisterNone] : e \in {e0}})

\* SaveAndUnloadAllRegisters from the k-th descriptor on
RECURSIVE SaveAndUnloadFrom(_, _, _, _, _)
SaveAndUnloadFrom(e0, table, stream, reason, k) ==
    Only({IF k > Len(e.variables) \/ e.error # "none" THEN e
        ELSE IF e.variables[k].reg # CpuRegisterNone /\ InScope(e, table, k)
        THEN SaveAndUnloadFrom(
                [SaveVariable(e, stream, k, reason) EXCEPT
                    !.variables[k].reg = CpuRegisterNone],
                table, stream, reason, k + 1)
        ELSE SaveAndUnloadFrom(e, table, stream, reason, k + 1) : e \in {e0}})

SaveAndUnloadAllRegisters(e, table, stream, reason) ==
    SaveAndUnloadFrom(e, table, stream, reason, 1)

\* The record of the unloading before an IP that can be jumped to: the
\* descriptors before it and after it
AtTarget(unloaded0, e) ==
    Only({[unloaded EXCEPT !.targets = Append(@,
            [ip_src |-> e.ip_src, parent |-> e.parent, before |-> e.variables,
             after |-> unloaded.variables, ip_dst |-> unloaded.ip_dst])]
    : unloaded \in {unloaded0}})

\* MarkRegisterAsDiscarded
MarkRegisterAsDiscarded(e0, table, reg) ==
    Only({LET k == FirstBound(e, table, reg)
        IN IF e.parent = 0 \/ k = 0 THEN e
           ELSE IF e.variables[k].is_dirty THEN Raise(e, "Compilation")
           ELSE [e EXCEPT !.variables[k].reg = CpuRegisterNone] : e \in {e0}})

\* "register_used[i]": the last variable in scope that is bound to the
\* register, or 0
RegisterUsed(e, table, reg) ==
    LET S == {k \in 1..Len(e.variables) :
                e.variables[k].reg = reg /\ InScope(e, table, k)}
    IN IF S = {} THEN 0 ELSE CHOOSE k \in S : \A j \in S : j <= k

\* The registers the loops of GetUnusedRegister do not skip
NotSuppressed(e) == {reg \in AX..BX : reg \notin e.suppressed_registers}

\* "last_used" after the loop of GetUnusedRegister: of the variables in the
\* registers that are not suppressed, the one with the smallest last_used
\* and among those the one in the first register
LeastRecentlyUsed(e, table) ==
    LET S == NotSuppressed(e)
        reg == CHOOSE r \in S :
                \A q \in S :
                    LET a == e.variables[RegisterUsed(e, table, r)].last_used
                        b == e.variables[RegisterUsed(e, table, q)].last_used
                    IN a < b \/ (a = b /\ r <= q)
    IN RegisterUsed(e, table, reg)

\* The record of a call of the allocator
Allocation(e0, table, done, try) ==
    Only({[try |-> try, ip_src |-> e.ip_src, parent |-> ParentName(e, table),
         suppressed |-> e.suppressed_registers, before |-> e.variables,
         after |-> done.variables, result |-> done.result,
         bytes |-> done.ip_dst - e.ip_dst] : e \in {e0}})

\* GetUnusedRegister; the register is returned in result.  With every
\* register suppressed "last_used" stays null and is dereferenced.
GetUnusedRegister(e0, table, stream) ==
    Only({LET free == {reg \in NotSuppressed(e) : RegisterUsed(e, table, reg) = 0}
            last_used == LeastRecentlyUsed(e, table)
            reg == e.variables[last_used].reg
            saved == SaveVariable(e, stream, last_used, "Inside")
            done == IF free # {} THEN [e EXCEPT !.result = Min(free)]
                    ELSE IF NotSuppressed(e) = {} THEN Raise(e, "AccessViolation")
                    ELSE [saved EXCEPT
                            !.variables[last_used].reg = CpuRegisterNone,
                            !.variables[last_used].is_dirty = FALSE,
                            !.result = reg]
        IN Only({[d EXCEPT !.allocations =
                    Append(@, Allocation(e, table, d, FALSE))] : d \in {done}})
    : e \in {e0}})

\* TryGetUnusedRegister
TryGetUnusedRegister(e0, table) ==
    Only({LET free == {reg \in NotSuppressed(e) : RegisterUsed(e, table, reg) = 0}
            done == [e EXCEPT !.result = IF free # {} THEN Min(free)
                                         ELSE CpuRegisterNone]
        IN [done EXCEPT !.allocations =
                Append(@, Allocation(e, table, done, TRUE))] : e \in {e0}})

\* atoi of a text given as the sequence of its characters: the value of its
\* leading decimal digits (white space and signs are not covered)
IsDigit(c) == \E n \in 0..9 : Digits[n + 1] = c

DigitValue(c) == CHOOSE n \in 0..9 : Digits[n + 1] = c

RECURSIVE AtoiFrom(_, _, _)
AtoiFrom(text, k, value) ==
    IF k > Len(text) \/ ~IsDigit(text[k]) THEN value
    ELSE AtoiFrom(text, k + 1, value * 10 + DigitValue(text[k]))

Atoi(text) == AtoiFrom(text, 1, 0)

\* atoi of the text of the operand of a Return entry, a single digit
AtoiDigit(text) ==
    CASE text = "0" -> 0 [] text = "1" -> 1 [] text = "2" -> 2
      [] text = "3" -> 3 [] text = "4" -> 4 [] text = "5" -> 5
      [] text = "6" -> 6 [] text = "7" -> 7 [] text = "8" -> 8
      [] text = "9" -> 9 [] OTHER -> 0

\* ZeroRegister(reg, desired_size): xor of the register with itself
ZeroRegister(e0, table, reg, desired_size) ==
    Only({LET discarded == MarkRegisterAsDiscarded(e, table, reg)
        IN IF discarded.error # "none" THEN discarded
           ELSE WriteRegister(
                    AllocateBufferForInstruction(discarded,
                        IF desired_size = 4 THEN 3 ELSE 2),
                    reg, 0, desired_size) : e \in {e0}})

\* LoadConstantToRegister(value, reg, desired_size): "mov reg, imm" with the
\* value cut to the size
LoadConstantToRegister(e0, table, value, reg, desired_size) ==
    Only({LET discarded == MarkRegisterAsDiscarded(e, table, reg)
        IN IF value = 0 THEN ZeroRegister(e, table, reg, desired_size)
           ELSE IF discarded.error # "none" THEN discarded
           ELSE WriteRegister(
                    AllocateBufferForInstruction(discarded,
                        CASE desired_size = 1 -> 1 + 1
                          [] desired_size = 2 -> 1 + 2
                          [] desired_size = 4 -> 2 + 4),
                    reg, Truncate(value, desired_size), desired_size)
    : e \in {e0}})

\* The bytes "mov" and "movzx" write when a variable of var_size is copied
\* to a register at desired_size: movzx widens an 8-bit variable, a 16-bit
\* variable is copied whole
CopiedSize(var_size, desired_size) ==
    IF var_size = 1 THEN desired_size ELSE var_size

\* The length of the register to register copy of CopyVariableToRegister
CopyLength(var_size, desired_size) ==
    CASE var_size = 1 /\ desired_size = 4 -> 4
      [] var_size = 1 /\ desired_size = 2 -> 3
      [] var_size = 1 -> 2
      [] var_size = 2 /\ desired_size = 4 -> 4
      [] var_size = 2 -> 2
      [] OTHER -> 3

\* CopyVariableToRegister
CopyVariableToRegister(e0, table, stream, k, reg_dst, desired_size) ==
    Only({LET var == e.variables[k]
            var_size == GetSymbolTypeSize(var.symbol.type)
            reg_src == var.reg
            released == [SaveVariable(e, stream, k, "Inside") EXCEPT
                            !.variables[k].reg = CpuRegisterNone]
            unloaded == SaveAndUnloadRegister(e, table, stream, reg_dst, "Inside")
            Copied(from) ==
                IF from.error # "none" THEN from
                ELSE WriteRegister(
                        AllocateBufferForInstruction(
                            Read(from, k, ReadRegister(from, reg_src, var_size),
                                 var_size),
                            CopyLength(var_size, desired_size)),
                        reg_dst, ReadRegister(from, reg_src, var_size),
                        CopiedSize(var_size, desired_size))
            Loaded(from) ==
                IF from.error # "none" THEN from
                ELSE WriteRegister(
                        WithMemoryOperand(
                            Read(from, k, ReadMemory(from, k), var_size), k,
                            CopyLength(var_size, desired_size)),
                        reg_dst, ReadMemory(from, k),
                        CopiedSize(var_size, desired_size))
        IN IF var.symbol.size > 0 THEN Raise(e, "Compilation")
           ELSE IF var.reg # CpuRegisterNone
           THEN IF var.reg = reg_dst /\ var_size >= desired_size
                THEN Read(released, k, ReadRegister(e, reg_dst, desired_size),
                          desired_size)
                ELSE Only({Copied(bound)
                : bound \in {IF var.reg = reg_dst THEN released ELSE unloaded}})
           ELSE Only({Loaded(bound) : bound \in {unloaded}}) : e \in {e0}})

\* LoadVariableUnreferenced; the register is returned in result.  Arrays
\* (LoadVariablePointer) are not covered.
LoadVariableUnreferenced(e0, table, stream, k, desired_size) ==
    Only({LET var == e.variables[k]
            var_size == GetSymbolTypeSize(var.symbol.type)
            got == GetUnusedRegister(e, table, stream)
            tried == TryGetUnusedRegister(e, table)
            chosen == IF var.reg = CpuRegisterNone THEN got
                      ELSE IF var_size < desired_size
                      THEN IF tried.result # CpuRegisterNone THEN tried
                           ELSE [tried EXCEPT !.result = var.reg]
                      ELSE [e EXCEPT !.result = var.reg]
            Copy(from) ==
                IF from.error # "none" THEN from
                ELSE [CopyVariableToRegister(from, table, stream, k,
                                             from.result, desired_size)
                        EXCEPT !.result = from.result]
        IN IF var.symbol.size > 0 THEN Raise(e, "Compilation")
           ELSE Only({Copy(bound) : bound \in {chosen}}) : e \in {e0}})

\* "dst->reg = reg_dst; dst->is_dirty = true; dst->last_used = ip_src", and
\* the value the assignment gives the variable
BindDestination(e0, dst, reg_dst, value) ==
    Only({[e EXCEPT !.variables[dst].reg = reg_dst,
                  !.variables[dst].is_dirty = TRUE,
                  !.variables[dst].last_used = e.ip_src,
                  !.values[dst] = value,
                  !.assigned = Append(@,
                    [ip_src |-> e.ip_src, dst |-> dst, reg |-> reg_dst,
                     value |-> value,
                     held |-> ReadRegister(e, reg_dst,
                        GetSymbolTypeSize(e.variables[dst].symbol.type))])]
    : e \in {e0}})

\* The value of an operand in the intermediate code, at the size of the
\* destination
OperandValue(e, table, op, dst_size) ==
    IF op.exp_type = "Constant" THEN Truncate(Atoi(op.value), dst_size)
    ELSE LET k == FindDescriptor(e, table, op.value)
         IN IF k = 0 THEN Unknown ELSE Truncate(e.values[k], dst_size)

\* EmitAssignNone with a constant or a variable of a numeric type; strings,
\* indexed operands and references are not covered
EmitAssignNone(e0, table, stream, i) ==
    Only({LET dst == FindDescriptor(e, table, i.dst_value)
            dst_size == GetSymbolTypeSize(e.variables[dst].symbol.type)
            value == OperandValue(e, table, i.op1, dst_size)
            Loaded(got) ==
                IF got.error # "none" THEN got
                ELSE Only({IF constant.error # "none" THEN constant
                            ELSE BindDestination(constant, dst, got.result,
                                                 value)
                                                 : constant \in {LoadConstantToRegister(got, table,
                            Atoi(i.op1.value), got.result, dst_size)}})
            op1 == FindDescriptor(e, table, i.op1.value)
            Copied(variable) ==
                IF variable.error # "none" THEN variable
                ELSE BindDestination(variable, dst, variable.result, value)
        IN IF dst = 0 THEN Raise(e, "Compilation")
           ELSE IF i.op1.exp_type = "Constant"
           THEN Only({Loaded(bound) : bound \in {GetUnusedRegister(e, table, stream)}})
           ELSE IF i.op1.exp_type = "Variable"
           THEN IF op1 = 0 THEN Raise(e, "Compilation")
                ELSE Only({Copied(bound)
                : bound \in {LoadVariableUnreferenced(e, table, stream, op1,
                                                   dst_size)}})
           ELSE Raise(e, "Compilation") : e \in {e0}})

\* What "add", "sub" and "neg" leave in a register of the size
Arithmetic(type, a, b, size) ==
    IF a = Unknown \/ b = Unknown THEN Unknown
    ELSE IF type = "Add" THEN Truncate(a + b, size)
    ELSE Truncate(a - b + 65536, size)

\* "add reg_dst, imm": the immediate is the value cut to the size
AddImmediate(e0, reg_dst, value, dst_size) ==
    Only({WriteRegister(
            AllocateBufferForInstruction(Computed(e),
                CASE dst_size = 1 -> 2 + 1 [] dst_size = 2 -> 2 + 2
                  [] OTHER -> 3 + 4),
            reg_dst,
            Arithmetic("Add", ReadRegister(e, reg_dst, dst_size),
                       Truncate(value + 65536, dst_size), dst_size),
            dst_size) : e \in {e0}})

\* "neg reg_dst"
Negate(e0, reg_dst, dst_size) ==
    Only({WriteRegister(
            AllocateBufferForInstruction(Computed(e),
                                         IF dst_size = 4 THEN 3 ELSE 2),
            reg_dst,
            Arithmetic("Subtract", 0, ReadRegister(e, reg_dst, dst_size), dst_size),
            dst_size) : e \in {e0}})

\* "add/sub reg_dst, op2" with op2 in its register, in its static slot or
\* in its stack slot; a memory operand is read at the size of the
\* destination
AddSubtractVariable(e0, type, reg_dst, op2, dst_size) ==
    Only({LET var == e.variables[op2]
            prefix == IF dst_size = 4 THEN 3 ELSE 2
            b == IF var.reg # CpuRegisterNone
                 THEN ReadRegister(e, var.reg, dst_size)
                 ELSE Truncate(ReadMemory(e, op2), dst_size)
            a == ReadRegister(e, reg_dst, dst_size)
            read == Computed(Read(e, op2, b, dst_size))
            emitted == IF var.reg # CpuRegisterNone
                       THEN AllocateBufferForInstruction(read, prefix)
                       ELSE WithMemoryOperand(read, op2, prefix)
        IN WriteRegister(emitted, reg_dst, Arithmetic(type, a, b, dst_size),
                         dst_size) : e \in {e0}})

\* "SuppressRegister _(this, reg)": the constructor inserts the register
\* into suppressed_registers and the destructor erases it
Suppress(e0, reg) ==
    Only({[e EXCEPT !.suppressed_registers = @ \cup {reg}] : e \in {e0}})

Release(e0, reg) ==
    Only({[e EXCEPT !.suppressed_registers = @ \ {reg}] : e \in {e0}})

\* EmitAssignAddSubtract for numeric destinations
EmitAssignAddSubtract(e0, table, stream, i) ==
    Only({LET dst == FindDescriptor(e, table, i.dst_value)
            dst_size == GetSymbolTypeSize(e.variables[dst].symbol.type)
            constant_swapped == i.op1.exp_type = "Constant"
            first == IF constant_swapped THEN i.op2 ELSE i.op1
            second == IF constant_swapped THEN i.op1 ELSE i.op2
            value == Arithmetic(i.assign,
                                OperandValue(e, table, i.op1, dst_size),
                                OperandValue(e, table, i.op2, dst_size),
                                dst_size)
            \* Both operands are constants
            value1 == Atoi(first.value)
            value2 == Atoi(second.value)
            folded == IF i.assign = "Add" THEN value1 + value2
                      ELSE value1 - value2
            Folded(got) ==
                IF got.error # "none" THEN got
                ELSE Only({IF constant.error # "none" THEN constant
                            ELSE BindDestination(constant, dst, got.result,
                                                 value)
                                                 : constant \in {LoadConstantToRegister(got, table, folded,
                                                 got.result, dst_size)}})
            \* The first operand is a variable
            op1 == FindDescriptor(e, table, first.value)
            op2 == FindDescriptor(e, table, second.value)
            op2_size == GetSymbolTypeSize(e.variables[op2].symbol.type)
            imm == IF i.assign = "Subtract" THEN 0 - Atoi(second.value)
                   ELSE Atoi(second.value)
            WithConstant(first_loaded) ==
                Only({IF i.assign = "Subtract" /\ constant_swapped
                        THEN Negate(added, first_loaded.result, dst_size)
                        ELSE added : added \in {AddImmediate(first_loaded, first_loaded.result, imm,
                                  dst_size)}})
            Expanded(first_loaded) ==
                Only({IF expanded.error # "none" THEN expanded
                        ELSE [Release(expanded, first_loaded.result) EXCEPT
                                !.variables[op2].reg = expanded.result]
                                : expanded \in {LoadVariableUnreferenced(
                        Suppress(first_loaded, first_loaded.result),
                        table, stream, op2, dst_size)}})
            WithVariable(first_loaded) ==
                Only({IF second_loaded.error # "none" THEN second_loaded
                        ELSE BindDestination(
                                AddSubtractVariable(second_loaded, i.assign,
                                    first_loaded.result, op2, dst_size),
                                dst, first_loaded.result, value)
                                : second_loaded \in {IF op2_size < dst_size THEN Expanded(first_loaded)
                     ELSE first_loaded}})
            Rest(first_loaded) ==
                IF first_loaded.error # "none" THEN first_loaded
                ELSE IF second.exp_type = "Constant"
                THEN BindDestination(WithConstant(first_loaded), dst,
                                     first_loaded.result, value)
                ELSE IF second.exp_type = "Variable"
                THEN IF op2 = 0 THEN Raise(e, "Compilation")
                     ELSE WithVariable(first_loaded)
                ELSE Raise(e, "Compilation")
        IN IF dst = 0 THEN Raise(e, "Compilation")
           ELSE IF first.exp_type = "Constant"
           THEN Only({Folded(bound) : bound \in {GetUnusedRegister(e, table, stream)}})
           ELSE IF op1 = 0 THEN Raise(e, "Compilation")
           ELSE Only({Rest(bound)
           : bound \in {IF dst = op1 /\ e.variables[op1].reg # CpuRegisterNone
                     THEN [Read(e, op1,
                                ReadRegister(e, e.variables[op1].reg, dst_size),
                                dst_size)
                            EXCEPT !.result = e.variables[op1].reg]
                     ELSE LoadVariableUnreferenced(e, table, stream, op1,
                                                   dst_size)}}) : e \in {e0}})

\* "Compute needed space in stack for parameters" of EmitReturn: every
\* parameter of the function takes its size and at least 2 bytes
RECURSIVE StackParamSizeFrom(_, _, _)
StackParamSizeFrom(table, n, k) ==
    IF k > Len(table) THEN 0
    ELSE (IF table[k].parameter # 0 /\ table[k].parent = n
          THEN (IF GetSymbolTypeSize(table[k].type) < 2 THEN 2
                ELSE GetSymbolTypeSize(table[k].type))
          ELSE 0) + StackParamSizeFrom(table, n, k + 1)

StackParamSize(table, n) == StackParamSizeFrom(table, n, 1) % 65536

NoInstruction == InstructionOperand(nullptr, SymbolType("Unknown", 0), "None")

\* "mov al, src" of the return of the entry point: nothing when the
\* variable is in AX, else a copy from its register or from its slot
MoveToAl(e0, src) ==
    Only({LET var == e.variables[src]
        IN IF var.reg = AX THEN e
           ELSE IF var.reg # CpuRegisterNone
           THEN WriteRegister(
                    AllocateBufferForInstruction(
                        Read(e, src, ReadRegister(e, var.reg, 1), 1), 2),
                    AX, ReadRegister(e, var.reg, 1), 1)
           ELSE WriteRegister(
                    WithMemoryOperand(
                        Read(e, src, Truncate(ReadMemory(e, src), 1), 1),
                        src, 2),
                    AX, Truncate(ReadMemory(e, src), 1), 1) : e \in {e0}})

\* EmitReturn(i, symbol_table); op is NoInstruction for the return the
\* epilogue adds
EmitReturn(e0, table, stream, op) ==
    Only({LET parent == table[e.parent]
            e1 == [e EXCEPT !.was_return = TRUE,
                            !.returning = Append(@, [ip_src |-> e.ip_src,
                                                     variables |-> e.variables])]
            src == FindDescriptor(e, table, op.value)
            are_types_compatible ==
                \/ op = NoInstruction /\ TypeIsVoid(parent.return_type)
                \/ op.type = parent.return_type
                \/ GetLargestTypeForArithmetic(op.type, parent.return_type).base
                        # "Unknown"
        IN IF ~are_types_compatible THEN Raise(e1, "Statement")
           ELSE IF parent.type.base = "EntryPoint"
           THEN IF op.exp_type = "Constant"
                THEN AsmInt(AllocateBufferForInstruction(e1, 2))
                ELSE IF op.exp_type = "Variable" /\ src # 0
                THEN AsmInt(MoveToAl(e1, src))
                ELSE Raise(e1, "Compilation")
           ELSE LET dst_size == GetSymbolTypeSize(parent.return_type)
                    loaded ==
                        IF TypeIsVoid(parent.return_type) THEN e1
                        ELSE IF op.exp_type = "Constant"
                        THEN LoadConstantToRegister(e1, table,
                                AtoiDigit(op.value), AX, dst_size)
                        ELSE IF op.exp_type = "Variable" /\ src # 0
                        THEN CopyVariableToRegister(e1, table, stream, src, AX,
                                                    dst_size)
                        ELSE Raise(e1, "Compilation")
                    stack_param_size == StackParamSize(table, parent.name)
                    restore_sp == parent.parameter > 0
                    left == AsmProcLeave(loaded,
                                IF restore_sp THEN stack_param_size ELSE 0,
                                restore_sp)
                IN IF loaded.error # "none" THEN loaded
                   ELSE [left EXCEPT !.returns = Append(@,
                            [function |-> e.parent, ip_src |-> e.ip_src,
                             restore_sp |-> restore_sp,
                             retn_imm16 |-> IF restore_sp THEN stack_param_size
                                            ELSE 0,
                             ax |-> IF TypeIsVoid(parent.return_type) THEN 0
                                    ELSE dst_size])] : e \in {e0}})

\* CheckReturnStatementPresent
CheckReturnStatementPresent(e, table, stream) ==
    IF e.parent # 0 /\ ~e.was_return
    THEN IF TypeIsVoid(table[e.parent].return_type)
         THEN MapIpSrcToDst(EmitReturn(e, table, stream, NoInstruction))
         ELSE Raise(e, "Compilation")
    ELSE e

\* BackpatchLabels(label, target) with label = { name, ip_dst }
BackpatchLabels(e, name, ip_dst, target) ==
    Backpatch(e, {k \in 1..Len(e.backpatch) :
                    /\ e.backpatch[k].target = target
                    /\ e.backpatch[k].value = name},
              ip_dst)

\* "Adjust stack for function-local variables" from the k-th descriptor
\* on: every local of the function that is referenced gets its location
\* below the frame and its Local entries are resolved
RECURSIVE ResolveLocals(_, _, _, _)
ResolveLocals(e0, table, k, stack_var_size) ==
    Only({IF k > Len(e.variables)
        THEN IF stack_var_size >= 127 THEN Raise(e, "Compilation") ELSE e
        ELSE LET symbol == e.variables[k].symbol
                 size == IF symbol.size > 0
                         THEN symbol.size * GetSymbolTypeSize(
                                [symbol.type EXCEPT !.pointer = @ - 1])
                         ELSE GetSymbolTypeSize(symbol.type)
             IN IF /\ symbol.parent # nullptr
                   /\ symbol.parent = ParentName(e, table)
                   /\ symbol.parameter = 0
                   /\ symbol.ref_count # 0
                THEN ResolveLocals(
                        BackpatchLabels(
                            [e EXCEPT !.variables[k].location =
                                            0 - (stack_var_size + size)],
                            symbol.name, 0 - (stack_var_size + size), "Local"),
                        table, k + 1, stack_var_size + size)
                ELSE ResolveLocals(e, table, k + 1, stack_var_size)
    : e \in {e0}})

EmitFunctionEpilogue(e, table, stream) ==
    IF e.parent = 0 THEN e
    ELSE Only({
         LET checked == [returned EXCEPT !.epilogues = Append(@,
                            [function |-> e.parent, ip_src |-> e.ip_src,
                             ip_dst |-> e.ip_dst,
                             bytes |-> returned.ip_dst - e.ip_dst,
                             error |-> returned.error])]
         IN IF checked.error # "none" THEN checked
            ELSE Only({
                 IF resolved.error # "none" THEN resolved
                 ELSE Only({
                      IF locals.error # "none" THEN locals
                      ELSE Only({
                           IF labels.error # "none" THEN labels
                           ELSE [labels EXCEPT !.parent = 0]
                           : labels \in {CheckBackpatchListIsEmpty(locals,
                                                                   "Label")}})
                      : locals \in {CheckBackpatchListIsEmpty(resolved,
                                                              "Local")}})
                 : resolved \in {ResolveLocals(checked, table, 1, 0)}})
         : returned \in {CheckReturnStatementPresent(e, table, stream)}})

EmitEntryPointPrologue(e, function) ==
    LET frame == AllocateBufferForInstruction(
                    AllocateBufferForInstruction(
                        AllocateBufferForInstruction(
                            [e EXCEPT !.parent = function], 2 + 2 + 2),
                        3),
                    2 + 2)
    IN [frame EXCEPT !.labels = << >>,
                     !.prologues = Append(@, [function |-> function,
                                              from |-> e.ip_dst,
                                              to |-> frame.ip_dst,
                                              variables |-> e.variables])]

\* The stack sizes of the parameters of the function that come before the
\* k-th descriptor: each takes its size and at least 2 bytes
RECURSIVE ParametersBefore(_, _, _)
ParametersBefore(e, n, k) ==
    IF k <= 1 THEN 0
    ELSE (IF /\ e.variables[k - 1].symbol.parent = n
             /\ e.variables[k - 1].symbol.parameter # 0
          THEN (IF GetSymbolTypeSize(e.variables[k - 1].symbol.type) < 2 THEN 2
                ELSE GetSymbolTypeSize(e.variables[k - 1].symbol.type))
          ELSE 0) + ParametersBefore(e, n, k - 1)

\* "it->location = stack_param_size + 6" for the parameters of the function
LocateParameters(e0, n) ==
    Only({[e EXCEPT !.variables = [k \in 1..Len(e.variables) |->
            IF e.variables[k].symbol.parent = n
                /\ e.variables[k].symbol.parameter # 0
            THEN [e.variables[k] EXCEPT
                    !.location = ParametersBefore(e, n, k) + 6]
            ELSE e.variables[k]]] : e \in {e0}})

EmitFunctionPrologue(e, table, function) ==
    LET n == table[function].name
        patched == BackpatchLabels([e EXCEPT !.parent = function], n, e.ip_dst,
                                   "Function")
        listed == [patched EXCEPT
                    !.functions = Append(@, [name |-> n, ip_dst |-> e.ip_dst])]
        frame == AllocateBufferForInstruction(
                    LocateParameters(AsmProcEnter(listed), n), 2 + 2)
    IN [frame EXCEPT !.labels = << >>,
                     !.prologues = Append(@, [function |-> function,
                                              from |-> e.ip_dst,
                                              to |-> frame.ip_dst,
                                              variables |-> e.variables])]

\* "Find the beginning of the next function to skip unused lines": the first
\* IP from ip on that starts a function or lies behind the stream
NextFunctionStart(table, stream, ip) ==
    Min({j \in ip..Len(stream) :
            j >= Len(stream) \/ FunctionStartsAt(table, j)})

\* ProcessSymbolLinkage from the k-th symbol on; "goto Retry" restarts at the
\* first symbol.  Reading current_instruction->next when no instruction is
\* left is undefined: null_read is what that read does, a fault or a null.
RECURSIVE ProcessSymbolLinkage(_, _, _, _, _)
ProcessSymbolLinkage(e, table, stream, k, null_read) ==
    IF e.error # "none" \/ k > Len(table) THEN e
    ELSE IF table[k].ip # e.ip_src
    THEN ProcessSymbolLinkage(e, table, stream, k + 1, null_read)
    ELSE IF table[k].type.base = "EntryPoint"
    THEN Only({
         IF closed.error # "none" THEN closed
         ELSE ProcessSymbolLinkage(
                    RefreshParentEndIp(EmitEntryPointPrologue(closed, k),
                                       table, stream),
                    table, stream, k + 1, null_read)
         : closed \in {EmitFunctionEpilogue(e, table, stream)}})
    ELSE IF table[k].type.base = "Function"
    THEN Only({
            IF closed.error # "none" THEN closed
            ELSE IF table[k].ref_count = 0
            THEN IF CurrentIsNull(closed, stream) /\ null_read = "fault"
                 THEN Raise(closed, "AccessViolation")
                 ELSE LET next == IF CurrentIsNull(closed, stream)
                                  THEN closed.ip_src + 1
                                  ELSE NextFunctionStart(table, stream,
                                                         closed.ip_src + 1)
                          skipped ==
                            [closed EXCEPT
                                !.ip_src = next,
                                !.optimized_out = Append(@,
                                    [name |-> table[k].name,
                                     from |-> closed.ip_src, to |-> next,
                                     ip_dst |-> closed.ip_dst])]
                      IN ProcessSymbolLinkage(MapIpSrcToDst(skipped), table,
                                              stream, 1, null_read)
            ELSE ProcessSymbolLinkage(
                    RefreshParentEndIp(EmitFunctionPrologue(closed, table, k),
                                       table, stream),
                    table, stream, k + 1, null_read)
         : closed \in {EmitFunctionEpilogue(e, table, stream)}})
    ELSE IF table[k].type.base = "Label"
    THEN Only({
         ProcessSymbolLinkage(
                BackpatchLabels(MapIpSrcToDst(unloaded), table[k].name,
                                unloaded.ip_dst, "Label"),
                table, stream, k + 1, null_read)
         : unloaded \in {AtTarget(
                            SaveAndUnloadAllRegisters(e, table, stream, "Before"),
                            e)}})
    ELSE ProcessSymbolLinkage(e, table, stream, k + 1, null_read)

\* EmitPush: "call_parameters.push(i)"; the entry is kept by its IP, which
\* also stands for the address of the name _strdup gave its symbol
EmitPush(e) == [e EXCEPT !.call_parameters = Append(@, e.ip_src)]

\* The declaration of the parameter with the index param of a function: its
\* index in the table, 0 if there is none
ParameterDeclaration(table, n, param) ==
    LET S == {k \in 1..Len(table) :
                table[k].parameter = param /\ table[k].parent = n}
    IN IF S = {} THEN 0 ELSE Min(S)

\* BackpatchString(ptr, str): the string is inserted into "strings", a set
\* of char*, and a String entry waits for its address
BackpatchString(e, offset, ptr, str) ==
    [e EXCEPT
        !.strings = @ \cup {[ptr |-> ptr, text |-> str]},
        !.references = Append(@, [offset |-> offset, text |-> str]),
        !.backpatch = Append(@,
            DosBackpatchInstruction("ToDsAbs16", "String", offset, 0, 0, str))]

\* The loop of EmitCall over the parameters, from the last one to the first;
\* the pushed symbols are constants (the push of a variable is not covered)
\* A push instruction of the given length: with the operand size prefix
\* 0x66 it moves SP by 4, without it (push imm8, push imm16) by 2
AsmPush(e, length, prefix) ==
    [AllocateBufferForInstruction(e, length) EXCEPT
        !.stack_pushed = @ + (IF prefix THEN 4 ELSE 2)]

RECURSIVE EmitCallParameters(_, _, _, _, _)
EmitCallParameters(e, table, stream, n, param) ==
    IF param = 0 \/ e.error # "none" THEN e
    ELSE LET top == e.call_parameters[Len(e.call_parameters)]
             symbol == stream[top + 1].arg
             popped == [e EXCEPT !.call_parameters =
                            SubSeq(@, 1, Len(@) - 1)]
             param_decl == ParameterDeclaration(table, n, param)
             base == table[param_decl].type.base
             pushed ==
                IF param_decl = 0 \/ symbol.exp_type # "Constant"
                THEN Raise(popped, "Compilation")
                ELSE IF base \in {"Bool", "Uint8"}
                THEN AsmPush(popped, 1 + 1, FALSE)
                ELSE IF base = "Uint16"
                THEN AsmPush(popped, 1 + 2, FALSE)
                ELSE IF base = "Uint32"
                THEN AsmPush(popped, 2 + 4, TRUE)
                ELSE IF base = "String"
                THEN BackpatchString(
                        AsmPush(popped, 1 + 2, FALSE),
                        e.buffer_offset + 1, top, symbol.name)
                ELSE Raise(popped, "Compilation")
         IN EmitCallParameters(pushed, table, stream, n, param - 1)

\* The "call rel16" of EmitCall
EmitCallRel16(e, n) ==
    LET call_rel16 == AllocateBufferForInstruction(e, 1 + 2)
    IN IF \E j \in 1..Len(e.functions) : e.functions[j].name = n
       THEN [call_rel16 EXCEPT
                !.buffer = ((e.buffer_offset + 1) :>
                    ToInt16(e.functions[Min({j \in 1..Len(e.functions) :
                                e.functions[j].name = n})].ip_dst
                            - call_rel16.ip_dst)) @@ @]
       ELSE [call_rel16 EXCEPT
                !.backpatch = Append(@,
                    DosBackpatchInstruction("ToRel16", "Function",
                        e.buffer_offset + 1, call_rel16.ip_dst, 0, n))]

\* What the called function leaves behind: any value in the registers, in
\* the slots of the statics and in the statics themselves
Called(e0) ==
    Only({[e EXCEPT
            !.machine.reg = [r \in 1..4 |-> UnknownRegister],
            !.machine.mem = [k \in DOMAIN @ |->
                IF e.variables[k].symbol.parent = nullptr THEN Unknown ELSE @[k]],
            !.values = [k \in DOMAIN @ |->
                IF e.variables[k].symbol.parent = nullptr THEN Unknown ELSE @[k]]]
    : e \in {e0}})

\* EmitCall of a function without a return value; the binding of the return
\* value of the others to AX is not covered
EmitCall(e, table, stream, i) ==
    LET target == table[i.arg]
    IN IF target.parameter # Len(e.call_parameters)
       THEN Raise(e, "Compilation")
       ELSE Only({
            IF pushed.error # "none" THEN pushed
            ELSE Only({
                 IF unloaded.error # "none" THEN unloaded
                 ELSE [Called(EmitCallRel16(unloaded, target.name))
                       EXCEPT
                          !.calls = Append(@,
                              [target |-> i.arg, ip_src |-> e.ip_src,
                               pushed |-> pushed.stack_pushed])]
                 : unloaded \in {SaveAndUnloadAllRegisters(pushed, table,
                                                          stream, "Inside")}})
            : pushed \in {EmitCallParameters(
                                [e EXCEPT !.stack_pushed = 0], table, stream,
                                target.name, target.parameter)}})

NearJumpThreshold == 10

\* "rel > INT8_MIN && rel < INT8_MAX"
IsNear(rel) == rel > -128 /\ rel < 127

\* The tail shared by EmitGoto, EmitIf and EmitGotoLabel once the jump
\* instruction is allocated: e is the emitter after the allocation, goto_ptr
\* the offset of the operand, dst the destination when it is known already
Jump(e, goto_ptr, goto_near, target) ==
    [ip_src |-> e.ip_src, target |-> target, goto_ptr |-> goto_ptr,
     goto_near |-> goto_near, next |-> e.ip_dst, parent |-> e.parent]

StoreJump(e, goto_ptr, goto_near, dst, target) ==
    IF goto_near /\ OutOfRel8(dst - e.ip_dst)
    THEN [Raise(e, "Compilation") EXCEPT
            !.jumps = Append(@, Jump(e, goto_ptr, goto_near, target))]
    ELSE [e EXCEPT !.buffer = (goto_ptr :>
                        IF goto_near THEN ToInt8(dst - e.ip_dst)
                        ELSE ToInt16(dst - e.ip_dst)) @@ @,
                   !.jumps = Append(@, Jump(e, goto_ptr, goto_near, target))]

BackpatchJump(e, goto_ptr, goto_near, target, ip, v) ==
    [e EXCEPT !.backpatch = Append(@,
        DosBackpatchInstruction(IF goto_near THEN "ToRel8" ELSE "ToRel16",
                                target, goto_ptr, e.ip_dst, ip, v)),
              !.jumps = Append(@, Jump(e, goto_ptr, goto_near,
                                       IF target = "IP" THEN ip ELSE v))]

\* EmitGoto; e0 is the emitter before "Unload all registers before jump"
EmitGoto(e0, table, stream, ip) ==
    Only({
    LET goto_near ==
            IF ip < e.ip_src
            THEN IsNear(IpSrcToDst(e, ip) - (e.ip_dst + 2))
            ELSE IsNear((ip - e.ip_src) * NearJumpThreshold)
        jmp == AllocateBufferForInstruction(e, IF goto_near THEN 1 + 1 ELSE 1 + 2)
        goto_ptr == e.buffer_offset + 1
    IN IF ip = e0.ip_src THEN Raise(e0, "Compilation")
       ELSE IF ip = e0.ip_src + 1 THEN e0
       ELSE IF e.error # "none" THEN e
       ELSE IF ip < e.ip_src
       THEN StoreJump(jmp, goto_ptr, goto_near, IpSrcToDst(e, ip), ip)
       ELSE BackpatchJump(jmp, goto_ptr, goto_near, "IP", ip, nullptr)
    : e \in {SaveAndUnloadAllRegisters(e0, table, stream, "Before")}})

\* The label of "labels" with the name: its index, 0 if there is none
FindLabel(e, n) ==
    LET S == {k \in 1..Len(e.labels) : e.labels[k].name = n}
    IN IF S = {} THEN 0 ELSE Min(S)

\* EmitGotoLabel
EmitGotoLabel(e0, table, stream, n) ==
    Only({
    LET it == FindLabel(e, n)
        goto_near == it # 0 /\ IsNear(e.labels[it].ip_dst - (e.ip_dst + 2))
        jmp == AllocateBufferForInstruction(e, IF goto_near THEN 1 + 1 ELSE 1 + 2)
        goto_ptr == e.buffer_offset + 1
    IN IF e.error # "none" THEN e
       ELSE IF it # 0
       THEN StoreJump(jmp, goto_ptr, goto_near, e.labels[it].ip_dst, n)
       ELSE BackpatchJump(jmp, goto_ptr, goto_near, "Label", 0, n)
    : e \in {SaveAndUnloadAllRegisters(e0, table, stream, "Before")}})

\* GetSwappedCompareType; "Unreachable" stands for the default case, which
\* is ThrowOnUnreachableCode
GetSwappedCompareType(type) ==
    CASE type = "Equal" -> "Equal"
      [] type = "NotEqual" -> "NotEqual"
      [] type = "Greater" -> "Less"
      [] type = "Less" -> "Greater"
      [] type = "GreaterOrEqual" -> "LessOrEqual"
      [] type = "LessOrEqual" -> "GreaterOrEqual"
      [] OTHER -> "Unreachable"

IfConstexpr(type, op1, op2) ==
    CASE type = "LogOr" -> op1 # 0 \/ op2 # 0
      [] type = "LogAnd" -> op1 # 0 /\ op2 # 0
      [] type = "Equal" -> op1 = op2
      [] type = "NotEqual" -> op1 # op2
      [] type = "Greater" -> op1 > op2
      [] type = "Less" -> op1 < op2
      [] type = "GreaterOrEqual" -> op1 >= op2
      [] type = "LessOrEqual" -> op1 <= op2

\* EmitIf of a comparison of two integer constants (the comparisons of
\* variables and of strings are not covered): the operands are swapped
\* because the first one is a constant, which throws for the comparisons
\* GetSwappedCompareType does not know; then EmitIfArithmetic (EmitIfOrAnd
\* does the same) emits a jmp when the comparison holds and nothing when it
\* does not
EmitIf(e0, table, stream, i) ==
    Only({
    LET ip == i.arg
        goto_near ==
            IF ip < e.ip_src
            THEN IsNear(IpSrcToDst(e, ip) - (e.ip_dst + NearJumpThreshold))
            ELSE IsNear((ip - e.ip_src) * NearJumpThreshold)
        type == GetSwappedCompareType(i.compare)
        value1 == Atoi(i.op2.value)
        value2 == Atoi(i.op1.value)
        jmp == AllocateBufferForInstruction(e, IF goto_near THEN 1 + 1 ELSE 1 + 2)
        goto_ptr == e.buffer_offset + 1
    IN IF ip = e0.ip_src THEN Raise(e0, "Compilation")
       ELSE IF ip = e0.ip_src + 1 THEN e0
       ELSE IF e.error # "none" THEN e
       ELSE IF type = "Unreachable" THEN Raise(e, "Compilation")
       ELSE IF ~IfConstexpr(type, value1, value2) THEN e
       ELSE IF ip < e.ip_src
       THEN StoreJump(jmp, goto_ptr, goto_near, IpSrcToDst(e, ip), ip)
       ELSE BackpatchJump(jmp, goto_ptr, goto_near, "IP", ip, nullptr)
    : e \in {SaveAndUnloadAllRegisters(e0, table, stream, "Before")}})

\* EmitAssign.  An Assign entry without operands carries the number of
\* bytes of the code emitted for it and binds no register; negation,
\* multiplication, division and shifts are not covered.
EmitAssign(e, table, stream, i) ==
    IF ~IsAssignment(i) THEN AllocateBufferForInstruction(e, i.arg)
    ELSE IF i.assign = "None" THEN EmitAssignNone(e, table, stream, i)
    ELSE IF i.assign \in {"Add", "Subtract"}
    THEN EmitAssignAddSubtract(e, table, stream, i)
    ELSE Raise(e, "Compilation")

\* sizeof(MzHeader) and the header as memset leaves it
MzHeaderSize == 28

MzHeader ==
    [signature |-> "", last_block_size |-> 0, block_count |-> 0,
     header_paragraphs |-> 0, min_extra_paragraphs |-> 0,
     max_extra_paragraphs |-> 0, ss |-> 0, sp |-> 0, ip |-> 0]

\* EmitMzHeader: the header and the fill up to a paragraph boundary are
\* allocated with AllocateBuffer, so ip_dst stays 0
EmitMzHeader ==
    /\ phase = "post" /\ error = "none"
    /\ phase' = "header"
    /\ LET header_paragraphs == (MzHeaderSize + 16 - 1) \div 16
           remaining == header_paragraphs * 16 - MzHeaderSize
           allocated == AllocateBuffer(emitter, MzHeaderSize)
       IN emitter' =
            [(IF remaining > 0 THEN AllocateBuffer(allocated, remaining)
              ELSE allocated)
                EXCEPT !.header = [MzHeader EXCEPT
                                    !.signature = "MZ",
                                    !.header_paragraphs = header_paragraphs]]
    /\ UNCHANGED << symbol_table, declaration_queue, parameter_count,
                    instruction_stream, function_ip, error, call, defined, cast,
                    compiler >>

\* EmitInstructions up to its loop: the variable list, then "Skip first
\* goto instruction"
EmitInstructionsBegin ==
    /\ phase = "header" /\ error = "none"
    /\ phase' = "emit"
    /\ \E listed \in {CreateDescriptors(emitter, symbol_table)} :
        emitter' = IF instruction_stream # << >>
                        /\ instruction_stream[1].type = "Goto"
                   THEN [listed EXCEPT !.ip_src = @ + 1]
                   ELSE listed
    /\ UNCHANGED << symbol_table, declaration_queue, parameter_count,
                    instruction_stream, function_ip, error, call, defined, cast,
                    compiler >>

\* The switch of the loop of EmitInstructions on the instruction at ip_src
EmitSwitch(e, table, stream, i) ==
    CASE i.type = "Nop" -> e
      [] i.type = "Assign" -> EmitAssign(e, table, stream, i)
      [] i.type = "Goto" -> EmitGoto(e, table, stream, i.arg)
      [] i.type = "GotoLabel" -> EmitGotoLabel(e, table, stream, i.arg)
      [] i.type = "If" -> EmitIf(e, table, stream, i)
      [] i.type = "Push" -> EmitPush(e)
      [] i.type = "Call" -> EmitCall(e, table, stream, i)
      [] i.type = "Return" -> EmitReturn(e, table, stream, i.arg)
      [] OTHER -> Raise(e, "Compilation")

\* The loop of EmitInstructions behind ProcessSymbolLinkage:
\* BackpatchAddresses, the switch, then
\* "current_instruction = current_instruction->next; ip_src++"
EmitCurrentInstruction(e, table, stream) ==
    IF e.error # "none" \/ CurrentIsNull(e, stream) THEN e
    ELSE Only({
         IF patched.error # "none" THEN patched
         ELSE Only({
              LET step == [ip |-> e.ip_src, bytes |-> done.ip_dst - e.ip_dst,
                           jumps |-> Len(done.jumps) - Len(e.jumps),
                           error |-> done.error]
              IN IF done.error # "none"
                 THEN [done EXCEPT !.steps = Append(@, step)]
                 ELSE [done EXCEPT !.ip_src = @ + 1,
                                   !.emitted = Append(@, e.ip_src),
                                   !.steps = Append(@, step)]
              : done \in {EmitSwitch([patched EXCEPT !.was_return = FALSE],
                                     table, stream, stream[e.ip_src + 1])}})
         : patched \in {BackpatchAddresses(e)}})

\* "discontinuous_ips": the IPs the Goto and the If entries jump to
DiscontinuousIps(stream) ==
    {stream[k].arg : k \in {j \in 1..Len(stream) :
                                stream[j].type \in {"Goto", "If"}}}

\* "Unload all registers before goto statement target"
UnloadAtTarget(e, table, stream) ==
    IF e.ip_src \in DiscontinuousIps(stream)
    THEN AtTarget(SaveAndUnloadAllRegisters(e, table, stream, "Before"), e)
    ELSE e

\* One iteration of the loop of EmitInstructions
EmitInstruction ==
    /\ phase = "emit" /\ error = "none"
    /\ ~CurrentIsNull(emitter, instruction_stream)
    /\ \E null_read \in {"fault", "null"} :
        \E linked \in {ProcessSymbolLinkage(
                            MapIpSrcToDst(UnloadAtTarget(emitter, symbol_table,
                                                         instruction_stream)),
                            symbol_table, instruction_stream, 1, null_read)} :
            \E result \in {EmitCurrentInstruction(linked, symbol_table,
                                                  instruction_stream)} :
                /\ emitter' = result
                /\ error' = result.error
    /\ UNCHANGED << symbol_table, declaration_queue, parameter_count,
                    instruction_stream, function_ip, call, defined, phase, cast,
                    compiler >>

\* After the loop of EmitInstructions: the epilogue of the last function
EmitInstructionsEnd ==
    /\ phase = "emit" /\ error = "none"
    /\ CurrentIsNull(emitter, instruction_stream)
    /\ \E result \in {EmitFunctionEpilogue(emitter, symbol_table,
                                            instruction_stream)} :
            emitter' = result /\ error' = result.error
    /\ phase' = "shared"
    /\ UNCHANGED << symbol_table, declaration_queue, parameter_count,
                    instruction_stream, function_ip, call, defined, cast,
                    compiler >>

\* The names EmitSharedFunctions passes to EmitSharedFunction, in its order
\* The immediate of the retn each shared function ends with (AsmProcLeave
\* and AsmProcLeaveNoArgs in EmitSharedFunctions)
SharedFunctionLeave ==
    [n \in {"PrintUint32", "PrintString", "PrintNewLine", "ReadUint32",
            "GetCommandLine", "#StringsEqual", "#Alloc", "release"} |->
        CASE n = "PrintUint32" -> 4
          [] n = "PrintString" -> 2
          [] n = "#StringsEqual" -> 4
          [] n = "#Alloc" -> 2
          [] n = "release" -> 2
          [] OTHER -> 0]

SharedFunctionNames ==
    << "PrintUint32", "PrintString", "PrintNewLine", "ReadUint32",
       "GetCommandLine", "#StringsEqual", "#Alloc", "release" >>

\* EmitSharedFunction: the code of the function is emitted only when its
\* symbol is referenced.  The code itself is not modelled.
RECURSIVE EmitSharedFunction(_, _, _)
EmitSharedFunction(e, table, k) ==
    IF k > Len(SharedFunctionNames) \/ e.error # "none" THEN e
    ELSE LET n == SharedFunctionNames[k]
             S == {i \in 1..Len(table) :
                    table[i].type.base = "SharedFunction" /\ table[i].name = n}
         IN IF S = {} THEN Raise(e, "Compilation")
            ELSE IF table[Min(S)].ref_count > 0
            THEN EmitSharedFunction(
                    [BackpatchLabels(e, n, e.ip_dst, "Function")
                        EXCEPT !.shared = Append(@, n)],
                    table, k + 1)
            ELSE EmitSharedFunction(e, table, k + 1)

EmitSharedFunctions ==
    /\ phase = "shared" /\ error = "none"
    /\ LET result == EmitSharedFunction(emitter, symbol_table, 1)
       IN emitter' = result /\ error' = result.error
    /\ phase' = "static"
    /\ UNCHANGED << symbol_table, declaration_queue, parameter_count,
                    instruction_stream, function_ip, call, defined, cast,
                    compiler >>

\* The first loop of EmitStaticData over the strings in the order "order":
\* the entries waiting for the text are resolved to ip_dst, then the text
\* and its terminating NUL are stored there
RECURSIVE EmitStrings(_, _, _)
EmitStrings(e, order, k) ==
    IF k > Len(order) \/ e.error # "none" THEN e
    ELSE LET patched == BackpatchLabels(e, order[k].text, e.ip_dst, "String")
             stored == [AllocateBufferForInstruction(patched,
                                                      Len(order[k].text) + 1)
                            EXCEPT !.buffer = (e.buffer_offset :> order[k].text) @@ @,
                                   !.pool = Append(@, [text |-> order[k].text,
                                                       ip_dst |-> e.ip_dst])]
         IN EmitStrings(stored, order, k + 1)

\* The second loop of EmitStaticData over the static variables
RECURSIVE EmitStatics(_, _, _)
EmitStatics(e, variables, k) ==
    IF k > Len(variables) \/ e.error # "none" THEN e
    ELSE IF variables[k].parent # nullptr
    THEN EmitStatics(e, variables, k + 1)
    ELSE LET symbol == variables[k]
             size == IF symbol.size > 0
                     THEN symbol.size * GetSymbolTypeSize(
                            [symbol.type EXCEPT !.pointer = @ - 1])
                     ELSE GetSymbolTypeSize(symbol.type)
             patched == BackpatchLabels(e, symbol.name, e.ip_dst + e.static_size,
                                        "Static")
         IN EmitStatics([patched EXCEPT !.static_size = @ + size],
                        variables, k + 1)

\* The orders in which a set can be iterated
Orders(S) ==
    {o \in [1..Cardinality(S) -> S] : \A x \in S : \E k \in DOMAIN o : o[k] = x}

\* EmitStaticData.  "strings" is a std::unordered_set<char*>: it hashes the
\* addresses of the strings, so the order of its iteration is any order.
EmitStaticData ==
    /\ phase = "static" /\ error = "none"
    /\ \E order \in Orders(emitter.strings) :
        \E result \in {EmitStatics(EmitStrings(emitter, order, 1),
                                   CreateVariableList(symbol_table), 1)} :
            emitter' = result /\ error' = result.error
    /\ phase' = "fix"
    /\ UNCHANGED << symbol_table, declaration_queue, parameter_count,
                    instruction_stream, function_ip, call, defined, cast,
                    compiler >>

ToUint16(x) == x % 65536

\* FixMzHeader(instruction_stream, stack_size)
FixMzHeader ==
    /\ phase = "fix" /\ error = "none"
    /\ phase' = "save"
    /\ LET ip_dst == emitter.ip_dst
           last_block_size == ToUint16(ip_dst % 512)
           block_count == ToUint16(ToUint16(ip_dst \div 512)
                                   + IF last_block_size > 0 THEN 1 ELSE 0)
           ss == ToUint16((ip_dst + emitter.static_size + 16 - 1) \div 16)
           stack == IF compiler.stack_size >= 32 /\ compiler.stack_size <= 32768
                    THEN compiler.stack_size ELSE 8192
           min_extra == ToUint16(
                ((emitter.static_size + stack + 16 - 1) \div 16) + 1)
       IN emitter' = [emitter EXCEPT !.header =
            [@ EXCEPT
                !.block_count = block_count,
                !.last_block_size = last_block_size,
                !.min_extra_paragraphs = min_extra,
                !.max_extra_paragraphs = min_extra,
                !.sp = ToUint16(ToUint16(stack + ToUint16(ss * 16)) + 256),
                !.ss = 0,
                !.ip = IF instruction_stream # << >>
                            /\ instruction_stream[1].type = "Goto"
                       THEN ToUint16(IpSrcToDst(emitter,
                                                instruction_stream[1].arg))
                       ELSE @],
            !.stack_size = stack]
    /\ UNCHANGED << symbol_table, declaration_queue, parameter_count,
                    instruction_stream, function_ip, error, call, defined, cast,
                    compiler >>

\* Save: the Function, String and Static entries are checked, then the
\* first buffer_offset bytes of the buffer are written
Save ==
    /\ phase = "save" /\ error = "none"
    /\ phase' = "done"
    /\ LET functions == CheckBackpatchListIsEmpty(emitter, "Function")
           strings == CheckBackpatchListIsEmpty(emitter, "String")
           statics == CheckBackpatchListIsEmpty(emitter, "Static")
       IN error' = IF emitter.buffer_offset = 0 THEN "none"
                   ELSE IF functions.error # "none" THEN functions.error
                   ELSE IF strings.error # "none" THEN strings.error
                   ELSE statics.error
    /\ UNCHANGED << symbol_table, declaration_queue, parameter_count,
                    instruction_stream, function_ip, call, defined, emitter,
                    cast, compiler >>

-----------------------------------------------------------------------------
(* Whole programs of functions without parameters *)

VoidFunctionNames == {"f", "g"}
CallTargets == {"f", "g", "PrintNewLine"}

NextReach ==
    \/ \E n \in VoidFunctionNames : AddFunctionPrototype(n, Void)
    \/ \E n \in VoidFunctionNames : AddFunction(n, Void)
    \/ AddFunction(EntryPointName, Uint8)
    \/ \E n \in CallTargets : StreamBelow(MaxProgram) /\ AddCall(n)
    \/ \E op \in ReturnOperands : StreamBelow(MaxProgram) /\ AddReturn(op)
    \/ PostprocessSymbolTable
    \/ EmitMzHeader
    \/ EmitInstructionsBegin
    \/ EmitInstruction
    \/ EmitInstructionsEnd
    \/ EmitSharedFunctions
    \/ EmitStaticData
    \/ FixMzHeader
    \/ Save

SpecReach == Init /\ [][NextReach]_vars

-----------------------------------------------------------------------------
(* Properties of reachability and of the emission of functions *)

\* The symbol of the defined function named n
FunctionSymbol(table, n) ==
    CHOOSE i \in 1..Len(table) :
        table[i].name = n /\ table[i].type.base \in {"Function", "EntryPoint"}

\* The instruction range of the k-th defined function: from its IP up to,
\* not including, the IP of the function defined next (the end of the stream
\* for the last one)
RangeOf(table, k) ==
    LET first == table[FunctionSymbol(table, defined[k])].ip
        next == IF k < Len(defined)
                THEN table[FunctionSymbol(table, defined[k + 1])].ip
                ELSE Len(instruction_stream)
    IN first..(next - 1)

\* The symbols called from the range of the k-th defined function
CalledFrom(table, k) ==
    {instruction_stream[ip + 1].arg :
        ip \in {j \in RangeOf(table, k) : instruction_stream[j + 1].type = "Call"}}

\* The defined functions reachable from the entry point through calls
RECURSIVE ReachableFrom(_, _)
ReachableFrom(table, S) ==
    LET T == S \cup {k \in 1..Len(defined) :
                        \E c \in S : FunctionSymbol(table, defined[k])
                                        \in CalledFrom(table, c)}
    IN IF T = S THEN S ELSE ReachableFrom(table, T)

Reachable(table) ==
    ReachableFrom(table, {k \in 1..Len(defined) : defined[k] = EntryPointName})

\* C1: after PostprocessSymbolTable a Function or EntryPoint symbol has
\* ref_count > 0 exactly when it is the entry point or the target of a Call
\* in the instruction range of a function that has ref_count > 0, and a
\* SharedFunction symbol has ref_count > 0 exactly when it is called from
\* such a range.
C1_ReachabilityMarks ==
    (phase # "parse" /\ error = "none") =>
        /\ \A k \in 1..Len(defined) :
            symbol_table[FunctionSymbol(symbol_table, defined[k])].ref_count > 0
                <=> k \in Reachable(symbol_table)
        /\ \A i \in 1..Len(symbol_table) :
            symbol_table[i].type.base = "SharedFunction" =>
                (symbol_table[i].ref_count > 0
                    <=> \E k \in Reachable(symbol_table) :
                            i \in CalledFrom(symbol_table, k))

\* The defined functions that reachability left with ref_count = 0
Unreferenced(table) ==
    {k \in 1..Len(defined) :
        LET s == table[FunctionSymbol(table, defined[k])]
        IN s.type.base = "Function" /\ s.ref_count = 0}

\* C2: once the instructions are emitted, every skip the emitter made covers
\* exactly the range of a function whose ref_count is 0 and leaves ip_dst
\* unchanged, no instruction of such a function is translated, every
\* instruction of the other functions is, and after EmitSharedFunctions a
\* shared function's code is emitted exactly when its ref_count > 0.
C2_UnreferencedCodeSkipped ==
    (phase \in {"shared", "static", "fix", "save", "done"} /\ error = "none") =>
        LET dead == Unreferenced(symbol_table)
            translated == {emitter.emitted[j] : j \in 1..Len(emitter.emitted)}
            skips == {emitter.optimized_out[j] :
                        j \in 1..Len(emitter.optimized_out)}
        IN /\ \A s \in skips : \E k \in dead :
                /\ defined[k] = s.name
                /\ s.from..(s.to - 1) = RangeOf(symbol_table, k)
                /\ emitter.ip_src_to_dst[s.to] = s.ip_dst
           /\ \A k \in 1..Len(defined) : \A ip \in RangeOf(symbol_table, k) :
                ip \in translated <=> k \notin dead
           /\ phase # "shared" =>
                \A i \in 1..Len(symbol_table) :
                    symbol_table[i].type.base = "SharedFunction" =>
                        ((\E j \in 1..Len(emitter.shared) :
                                emitter.shared[j] = symbol_table[i].name)
                            <=> symbol_table[i].ref_count > 0)
-----------------------------------------------------------------------------
(* Programs of jumps *)

MaxJumpProgram == 4
MaxJumps == 2
MaxLabels == 1

\* The numbers of bytes EmitAssign is taken to emit for an Assign entry: a
\* short instruction, and one long enough for a jump over it to leave the
\* range of a Rel8
AssignSizes == {4, 128}

LabelNames == {"L", "M"}

Constant(v) == InstructionOperand(v, Uint8, "Constant")

\* The comparisons of the If entries: one that holds, one that does not
Conditions == {<< "Equal", << "1" >>, << "1" >> >>,
               << "Less", << "1" >>, << "0" >> >>}

\* The entries the parser appends for goto, if, loop and assignment
\* statements
JumpEntries ==
    {InstructionEntry("Goto", ip) : ip \in 1..MaxJumpProgram}
    \cup {IfEntry(ip, c[1], Constant(c[2]), Constant(c[3])) :
            ip \in 1..MaxJumpProgram, c \in Conditions}
    \cup {InstructionEntry("GotoLabel", n) : n \in LabelNames}

AssignEntries == {InstructionEntry("Assign", size) : size \in AssignSizes}

IsJump(i) == i.type \in {"Goto", "If", "GotoLabel"}

JumpsBelow(bound) ==
    Cardinality({k \in 1..Len(instruction_stream) :
                    k > 1 /\ IsJump(instruction_stream[k])}) < bound

LabelsBelow(bound) ==
    Cardinality({k \in 1..Len(declaration_queue) :
                    declaration_queue[k].type.base = "Label"}
        \cup {-k : k \in {j \in 1..Len(symbol_table) :
                    symbol_table[j].type.base = "Label"}}) < bound

AddEntry(entry) ==
    /\ Parsing
    /\ Invoke("statement", nullptr, SymbolType("None", 0), << entry >>)
    /\ instruction_stream' = Append(instruction_stream, entry)
    /\ UNCHANGED << symbol_table, declaration_queue, parameter_count,
                    function_ip, error, defined, phase, emitter, cast,
                    compiler >>

\* No function of the name is defined yet
Undefined(n) == \A k \in 1..Len(defined) : defined[k] # n

NextJump ==
    \/ Undefined("f") /\ AddFunction("f", Void)
    \/ Undefined(EntryPointName) /\ AddFunction(EntryPointName, Uint8)
    \/ \E entry \in JumpEntries :
        StreamBelow(MaxJumpProgram) /\ JumpsBelow(MaxJumps) /\ AddEntry(entry)
    \/ \E entry \in AssignEntries :
        StreamBelow(MaxJumpProgram) /\ AddEntry(entry)
    \/ StreamBelow(MaxJumpProgram) /\ LabelsBelow(MaxLabels)
        /\ AddLabel("L", NextIp)
    \/ StreamBelow(MaxJumpProgram) /\ AddReturn(Constant("0"))
    \/ PostprocessSymbolTable
    \/ EmitMzHeader
    \/ EmitInstructionsBegin
    \/ EmitInstruction
    \/ EmitInstructionsEnd
    \/ EmitSharedFunctions
    \/ EmitStaticData
    \/ FixMzHeader
    \/ Save

SpecJump == Init /\ [][NextJump]_vars

\* C14: whenever the pipeline from EmitInstructions to Save has completed
\* without an error, the backpatch list of the emitter holds no entry of any
\* target: every placeholder written into the buffer has been filled.
C14_BackpatchListEmpty ==
    (phase = "done" /\ error = "none") => emitter.backpatch = << >>
\* The jump instructions emitted for the Goto and If entries
GotoIfJumps ==
    {k \in 1..Len(emitter.jumps) :
        instruction_stream[emitter.jumps[k].ip_src + 1].type \in {"Goto", "If"}}

\* The operand of the jump has been written into the buffer
Stored(j) == j.goto_ptr \in DOMAIN emitter.buffer

\* The destination of the target of the jump minus the destination offset
\* immediately after the jump instruction
Delta(j) == IpSrcToDst(emitter, j.target) - j.next

\* The target of the jump has been reached by the emission: it was mapped
\* before a backward jump was emitted, or its instruction has been
\* translated after a forward jump was
TargetReached(j) ==
    IF j.target < j.ip_src THEN j.target \in DOMAIN emitter.ip_src_to_dst
    ELSE \E k \in 1..Len(emitter.emitted) : emitter.emitted[k] = j.target

\* C15: the displacement stored in the jump of a Goto or If equals
\* ip_src_to_dst[target] minus the offset immediately after the jump, and a
\* Rel8 never holds a truncated value; a jump whose target was reached has
\* its displacement stored unless it is a Rel8 out of range, and then the
\* compilation has failed with a Compilation error; the emission stops with
\* that error when it reaches the target of a pending Rel8 whose
\* displacement is out of range.
C15_JumpDisplacement ==
    \A k \in GotoIfJumps :
        LET j == emitter.jumps[k]
        IN /\ Stored(j) =>
                /\ emitter.buffer[j.goto_ptr] = Delta(j)
                /\ j.goto_near => Delta(j) \in -128..127
           /\ (TargetReached(j) /\ ~Stored(j)) =>
                /\ j.goto_near
                /\ Delta(j) \notin -128..127
                /\ error = "Compilation"
           /\ ( /\ j.goto_near /\ ~Stored(j)
                /\ emitter.ip_src = j.target
                /\ j.target \in DOMAIN emitter.ip_src_to_dst
                /\ ~CurrentIsNull(emitter, instruction_stream)
                /\ Delta(j) \notin -128..127 ) => emitter.error = "Compilation"

\* A forward Rel8 jump that was backpatched and a backward jump, both stored
C15_Witness ==
    /\ emitter.error = "none"
    /\ \E k1, k2 \in GotoIfJumps :
        LET j1 == emitter.jumps[k1]
            j2 == emitter.jumps[k2]
        IN /\ j1.target > j1.ip_src /\ j1.goto_near /\ Stored(j1)
           /\ emitter.buffer[j1.goto_ptr] > 0
           /\ j2.target < j2.ip_src /\ Stored(j2)
           /\ emitter.buffer[j2.goto_ptr] < 0
\* The index in "defined" of the function whose range holds the IP, 0 if
\* there is none
FunctionAt(ip) ==
    LET S == {k \in 1..Len(defined) : ip \in RangeOf(symbol_table, k)}
    IN IF S = {} THEN 0 ELSE CHOOSE k \in S : TRUE

\* The label with the name is declared in the function defined k-th
LabelDeclaredIn(n, k) ==
    \E i \in 1..Len(symbol_table) :
        /\ symbol_table[i].type.base = "Label"
        /\ symbol_table[i].name = n
        /\ symbol_table[i].parent = defined[k]

\* C20: the Label check of an epilogue fails only when a GotoLabel of a
\* function names a label that is not declared in that function: a
\* GotoLabel whose label is declared in its function is resolved by the
\* time the epilogue runs, whether the label precedes or follows it.
C20_GotoLabelResolved ==
    emitter.unresolved = "Label" =>
        \E k \in 1..Len(emitter.jumps) :
            LET j == emitter.jumps[k]
            IN /\ instruction_stream[j.ip_src + 1].type = "GotoLabel"
               /\ FunctionAt(j.ip_src) # 0
               /\ ~LabelDeclaredIn(j.target, FunctionAt(j.ip_src))
-----------------------------------------------------------------------------
(* Compiler.cpp: the #stack directive; the MZ header *)

MaxDirectives == 3
MaxHeaderProgram == 3

\* The texts of the parameters of the directives, as sequences of characters
StackSizes ==
    {<< "3", "1" >>, << "3", "2" >>,
     << "3", "2", "7", "6", "8" >>, << "3", "2", "7", "6", "9" >>}

StackParameters == StackSizes \cup {<< "^" >> \o t : t \in StackSizes}

StackSizeAfter_NoTest(stack_size, param) ==
    IF param[1] = "^" THEN Atoi(Tail(param)) ELSE Atoi(param)

\* The "#stack" branch of ParseCompilerDirective: the stack size after the
\* directive with the parameter
StackSizeAfter(stack_size, param) ==
    IF param[1] = "^"
    THEN LET new_stack_size == Atoi(Tail(param))
         IN IF stack_size < new_stack_size THEN new_stack_size ELSE stack_size
    ELSE Atoi(param)

\* ParseCompilerDirective of a directive with a parameter; the directives
\* other than "#stack" go to the callback of the parser
ParseCompilerDirective(directive, param) ==
    /\ Parsing
    /\ directive = "#stack"
    /\ Invoke("directive", directive, SymbolType("None", 0), << param >>)
    /\ compiler' = [compiler EXCEPT
                        !.stack_size = StackSizeAfter(@, param),
                        !.directives = Append(@, param)]
    /\ UNCHANGED << symbol_table, declaration_queue, parameter_count,
                    instruction_stream, function_ip, error, defined, phase,
                    emitter, cast >>

DirectivesBelow(bound) == Len(compiler.directives) < bound

NextHeader ==
    \/ \E param \in StackParameters :
        DirectivesBelow(MaxDirectives) /\ ParseCompilerDirective("#stack", param)
    \/ Undefined(EntryPointName) /\ AddFunction(EntryPointName, Uint8)
    \/ \E entry \in AssignEntries :
        StreamBelow(MaxHeaderProgram) /\ AddEntry(entry)
    \/ StreamBelow(MaxHeaderProgram) /\ AddReturn(Constant("0"))
    \/ PostprocessSymbolTable
    \/ EmitMzHeader
    \/ EmitInstructionsBegin
    \/ EmitInstruction
    \/ EmitInstructionsEnd
    \/ EmitSharedFunctions
    \/ EmitStaticData
    \/ FixMzHeader
    \/ Save

SpecHeader == Init /\ [][NextHeader]_vars

\* The byte length of the image Save writes
TotalImageSize == emitter.buffer_offset

\* C17: after FixMzHeader, block_count * 512 minus the unused part of the
\* last block (512 - last_block_size when last_block_size > 0) equals the
\* byte length of the image Save writes, which begins with the 32-byte
\* padded MZ header.
C17_BlockCount ==
    (phase \in {"save", "done"} /\ error = "none") =>
        LET header == emitter.header
        IN header.block_count * 512
            - (IF header.last_block_size > 0
               THEN 512 - header.last_block_size ELSE 0)
           = TotalImageSize

\* The value of the parameter of a directive
IsRaise(param) == param[1] = "^"

ValueOf(param) == IF IsRaise(param) THEN Atoi(Tail(param)) ELSE Atoi(param)

Max(S) == CHOOSE x \in S : \A y \in S : y <= x

\* The requested stack size after the directives: the value of the last
\* "#stack N" (0 when there is none) raised to the largest of the
\* "#stack ^M" after it
Requested(directives) ==
    LET sets == {k \in 1..Len(directives) : ~IsRaise(directives[k])}
        last == IF sets = {} THEN 0 ELSE Max(sets)
        base == IF last = 0 THEN 0 ELSE ValueOf(directives[last])
    IN Max({base} \cup {ValueOf(directives[k]) :
                            k \in (last + 1)..Len(directives)})

\* C18: the requested stack size is the value of the last "#stack N" raised
\* to the maximum of the "#stack ^M" after it, and the stack size used for
\* the header is the request when it lies in 32..32768 and 8192 otherwise.
C18_StackSize ==
    /\ compiler.stack_size = Requested(compiler.directives)
    /\ phase \in {"save", "done"} =>
        LET request == Requested(compiler.directives)
            stack == IF request \in 32..32768 THEN request ELSE 8192
        IN /\ emitter.stack_size = stack
           /\ emitter.header.min_extra_paragraphs
                = ((emitter.static_size + stack + 15) \div 16) + 1

\* A "#stack N" lowered the request after a raise, a "#stack ^M" below the
\* request left it alone, and the header uses the request
C18_Witness ==
    /\ phase = "done"
    /\ Len(compiler.directives) = 3
    /\ IsRaise(compiler.directives[1])
    /\ ~IsRaise(compiler.directives[2])
    /\ IsRaise(compiler.directives[3])
    /\ ValueOf(compiler.directives[1]) > ValueOf(compiler.directives[2])
    /\ ValueOf(compiler.directives[3]) < ValueOf(compiler.directives[2])
    /\ emitter.stack_size = ValueOf(compiler.directives[2])
    /\ emitter.stack_size # 8192
-----------------------------------------------------------------------------
(* Programs that print string literals *)

MaxStringProgram == 6

StringType == SymbolType("String", 0)

Literals == {"a", "bc"}

\* A call statement with arguments: PrepareForCall appends the Push entries
\* of the arguments, then the Call entry of the function follows
CallStatement(n, actuals) ==
    LET target == GetFunction(symbol_table, n)
    IN /\ Parsing
       /\ target # 0
       /\ symbol_table[target].parameter = Len(actuals)
       /\ FirstCallFailure(symbol_table, n, actuals, Len(actuals)) = 0
       /\ Invoke("call", n, SymbolType("None", 0), actuals)
       /\ instruction_stream' =
            Append(instruction_stream \o Pushes(actuals, Len(actuals)),
                   InstructionEntry("Call", target))
       /\ UNCHANGED << symbol_table, declaration_queue, parameter_count,
                       function_ip, error, defined, phase, emitter, cast,
                       compiler >>

\* The buffer Save writes: its length, the operands and strings stored in
\* it, and the header at its start
Image(e) ==
    [buffer_offset |-> e.buffer_offset, buffer |-> e.buffer,
     header |-> e.header]

\* The back end is run once more on the same instruction stream and symbol
\* table, by a new emitter
RunAgain ==
    /\ phase = "done" /\ error = "none"
    /\ emitter.previous = << >>
    /\ phase' = "post"
    /\ emitter' = [NoEmitter EXCEPT !.previous = Image(emitter)]
    /\ UNCHANGED << symbol_table, declaration_queue, parameter_count,
                    instruction_stream, function_ip, error, call, defined, cast,
                    compiler >>

NextString ==
    \/ Undefined(EntryPointName) /\ AddFunction(EntryPointName, Uint8)
    \/ \E text \in Literals :
        /\ Len(instruction_stream) + 2 <= MaxStringProgram
        /\ CallStatement("PrintString",
                         << Operand(text, StringType, "Constant") >>)
    \/ StreamBelow(MaxStringProgram) /\ AddReturn(Constant("0"))
    \/ PostprocessSymbolTable
    \/ EmitMzHeader
    \/ EmitInstructionsBegin
    \/ EmitInstruction
    \/ EmitInstructionsEnd
    \/ EmitSharedFunctions
    \/ EmitStaticData
    \/ FixMzHeader
    \/ Save
    \/ RunAgain

SpecString == Init /\ [][NextString]_vars

\* The texts of the string literals referenced by the emitted code
ReferencedLiterals ==
    {emitter.references[k].text : k \in 1..Len(emitter.references)}

\* The copies of a text in the string pool
Copies(text) == {k \in 1..Len(emitter.pool) : emitter.pool[k].text = text}

\* C16: once EmitStaticData has run, every string literal referenced by the
\* emitted code is stored exactly once in the string pool, followed by its
\* NUL, and every operand waiting for a string holds the PSP-biased address
\* of the pool copy with the same content.
C16_StringPool ==
    (phase \in {"fix", "save", "done"} /\ error = "none") =>
        /\ \A text \in ReferencedLiterals : Cardinality(Copies(text)) = 1
        /\ \A k \in 1..Len(emitter.pool) :
            /\ emitter.pool[k].text \in ReferencedLiterals
            /\ k < Len(emitter.pool) =>
                emitter.pool[k + 1].ip_dst
                    = emitter.pool[k].ip_dst + Len(emitter.pool[k].text) + 1
        /\ \A k \in 1..Len(emitter.references) :
            LET r == emitter.references[k]
            IN /\ r.offset \in DOMAIN emitter.buffer
               /\ \E c \in Copies(r.text) :
                    emitter.buffer[r.offset] = emitter.pool[c].ip_dst + 256

\* C19: a second run of the back end on the same instruction stream and
\* symbol table produces the image of the first run.
C19_Deterministic ==
    (phase = "done" /\ error = "none" /\ emitter.previous # << >>) =>
        Image(emitter) = emitter.previous
-----------------------------------------------------------------------------
(* Programs with an If of two constants *)

MaxIfProgram == 4

CompareType ==
    {"LogOr", "LogAnd", "Equal", "NotEqual", "Greater", "Less",
     "GreaterOrEqual", "LessOrEqual"}

ConstantTexts == {<< "0" >>, << "1" >>}

IfEntries ==
    {IfEntry(ip, type, Constant(v1), Constant(v2)) :
        ip \in 1..MaxIfProgram, type \in CompareType,
        v1 \in ConstantTexts, v2 \in ConstantTexts}

NoIfYet == \A k \in 1..Len(instruction_stream) : instruction_stream[k].type # "If"

NextIf ==
    \/ Undefined(EntryPointName) /\ AddFunction(EntryPointName, Uint8)
    \/ \E entry \in IfEntries :
        StreamBelow(MaxIfProgram) /\ NoIfYet /\ AddEntry(entry)
    \/ StreamBelow(MaxIfProgram) /\ AddEntry(InstructionEntry("Assign", 4))
    \/ StreamBelow(MaxIfProgram) /\ AddReturn(Constant("0"))
    \/ PostprocessSymbolTable
    \/ EmitMzHeader
    \/ EmitInstructionsBegin
    \/ EmitInstruction
    \/ EmitInstructionsEnd
    \/ EmitSharedFunctions
    \/ EmitStaticData
    \/ FixMzHeader
    \/ Save

SpecIf == Init /\ [][NextIf]_vars

\* The value of the comparison of an If entry of two constants, evaluated on
\* the operands in the order they are written
Holds(i) ==
    LET op1 == Atoi(i.op1.value)
        op2 == Atoi(i.op2.value)
    IN CASE i.compare = "LogOr" -> op1 # 0 \/ op2 # 0
         [] i.compare = "LogAnd" -> op1 # 0 /\ op2 # 0
         [] i.compare = "Equal" -> op1 = op2
         [] i.compare = "NotEqual" -> op1 # op2
         [] i.compare = "Greater" -> op1 > op2
         [] i.compare = "Less" -> op1 < op2
         [] i.compare = "GreaterOrEqual" -> op1 >= op2
         [] i.compare = "LessOrEqual" -> op1 <= op2

\* C22: for an If of two constants whose target is not the next IP, of any
\* compare kind: when the comparison of the operands as written holds,
\* exactly one unconditional jump to the target is emitted, and when it does
\* not hold no byte is emitted for the If.
C22_ConstantIf ==
    \A k \in 1..Len(emitter.steps) :
        LET step == emitter.steps[k]
            i == instruction_stream[step.ip + 1]
        IN (i.type = "If" /\ i.arg # step.ip + 1) =>
            /\ step.error = "none"
            /\ IF Holds(i)
               THEN /\ step.jumps = 1
                    /\ step.bytes \in {1 + 1, 1 + 2}
                    /\ \E j \in 1..Len(emitter.jumps) :
                        /\ emitter.jumps[j].ip_src = step.ip
                        /\ emitter.jumps[j].target = i.arg
               ELSE step.jumps = 0 /\ step.bytes = 0

(***************************************************************************)
(* The return statement at the end of a function.  emitter.epilogues is a  *)
(* history: one record for every epilogue of a function that was emitted,  *)
(* with the IPs where it ran and what CheckReturnStatementPresent did.     *)
(***************************************************************************)

\* The instructions emitted for the function an epilogue closes are the
\* ones from the IP of the function to the IP the epilogue ran at
LastWasReturn(epilogue) ==
    /\ epilogue.ip_src > symbol_table[epilogue.function].ip
    /\ instruction_stream[epilogue.ip_src].type = "Return"

\* C24: at the epilogue of every emitted function, nothing is added when
\* the last instruction emitted for the function was a Return; otherwise
\* (a function without any instruction included) a void function gets a
\* return sequence of its own and a non-void function, the entry point
\* included, fails the compilation with a Compilation error.
C24_ReturnPresent ==
    \A k \in 1..Len(emitter.epilogues) :
        LET epilogue == emitter.epilogues[k]
            function == symbol_table[epilogue.function]
        IN IF LastWasReturn(epilogue)
           THEN epilogue.error = "none" /\ epilogue.bytes = 0
           ELSE IF TypeIsVoid(function.return_type)
           THEN epilogue.error = "none" /\ epilogue.bytes > 0
           ELSE epilogue.error = "Compilation"

(***************************************************************************)
(* Where the jumps of a function land                                      *)
(***************************************************************************)

\* The destination offset the stored operand of a jump resolves to
Destination(j) == j.next + emitter.buffer[j.goto_ptr]

\* The prologue of the function a jump was emitted in
PrologueOf(j) ==
    emitter.prologues[CHOOSE k \in 1..Len(emitter.prologues) :
                        emitter.prologues[k].function = j.parent]

\* The offset behind the code of the function a jump was emitted in: the
\* offset its epilogue left, or the current one while the function is open
CodeEndOf(j) ==
    LET S == {k \in 1..Len(emitter.epilogues) :
                emitter.epilogues[k].function = j.parent}
    IN IF S = {} THEN emitter.ip_dst
       ELSE LET epilogue == emitter.epilogues[CHOOSE k \in S : TRUE]
            IN epilogue.ip_dst + epilogue.bytes

\* The IPs a jump of the k-th defined function may name: those of its
\* instructions and the IP just past the last of them
TargetsOf(k) ==
    {ip \in 1..Len(instruction_stream) :
        \/ ip \in RangeOf(symbol_table, k)
        \/ ip > 1 /\ ip - 1 \in RangeOf(symbol_table, k)}

\* The function a jump was emitted in has been closed by its epilogue
Closed(j) ==
    \E k \in 1..Len(emitter.epilogues) :
        emitter.epilogues[k].function = j.parent

\* Programs of two functions where the entry point calls the other one
MaxContainProgram == 5

NextContain ==
    \/ Undefined("f") /\ AddFunction("f", Void)
    \/ Undefined(EntryPointName) /\ AddFunction(EntryPointName, Uint8)
    \/ \E ip \in 1..MaxContainProgram :
        /\ StreamBelow(MaxContainProgram) /\ JumpsBelow(MaxJumps)
        /\ AddEntry(InstructionEntry("Goto", ip))
    \/ StreamBelow(MaxContainProgram) /\ AddEntry(InstructionEntry("Assign", 4))
    \/ StreamBelow(MaxContainProgram) /\ AddCall("f")
    \/ \E op \in ReturnOperands : StreamBelow(MaxContainProgram) /\ AddReturn(op)
    \/ PostprocessSymbolTable
    \/ EmitMzHeader
    \/ EmitInstructionsBegin
    \/ EmitInstruction
    \/ EmitInstructionsEnd
    \/ EmitSharedFunctions
    \/ EmitStaticData
    \/ FixMzHeader
    \/ Save

SpecContain == Init /\ [][NextContain]_vars

\* C29: every jump of a Goto or If emitted inside a function resolves to an
\* offset inside the code of that function behind its prologue; a jump to
\* the IP just past its last instruction does not land on the prologue of
\* the next function and a jump back to its first instruction does not
\* land on its own prologue.  Stated of the emissions that have not failed.
C29_JumpContainment ==
    \A k \in GotoIfJumps :
        LET j == emitter.jumps[k]
        IN ( /\ emitter.error = "none"
             /\ Stored(j)
             /\ FunctionAt(j.ip_src) # 0
             /\ j.target \in TargetsOf(FunctionAt(j.ip_src)) ) =>
                /\ Destination(j) >= PrologueOf(j).to
                /\ IF Closed(j) THEN Destination(j) < CodeEndOf(j)
                   ELSE Destination(j) <= emitter.ip_dst

(***************************************************************************)
(* The stdcall frame: functions with parameters, their returns and the     *)
(* calls to them and to the shared functions                               *)
(***************************************************************************)

MaxStdcallProgram == 6
MaxParameters == 2

Uint32 == SymbolType("Uint32", 0)
FormalTypes == {Uint8, Uint16, Uint32, StringType}
ConstantActuals == {Operand("1", Uint8, "Constant"),
                    Operand("a", StringType, "Constant")}
ConstantActualLists ==
    {<< >>} \cup {<< x >> : x \in ConstantActuals}
            \cup {<< x, y >> : x, y \in ConstantActuals}
StdcallCallees == {"f", "PrintUint32", "PrintString", "#Alloc"}

NextStdcall ==
    \/ \E t \in FormalTypes :
            /\ QueueBelow(MaxParameters) /\ Undefined("f")
            /\ ToParameterList(t, ParameterNameAt(Len(declaration_queue) + 1))
    \/ \E rt \in {Void, Uint16} : Undefined("f") /\ AddFunction("f", rt)
    \/ /\ Undefined(EntryPointName) /\ ~Undefined("f")
       /\ AddFunction(EntryPointName, Uint8)
    \/ \E n \in StdcallCallees, actuals \in ConstantActualLists :
            /\ Len(instruction_stream) + Len(actuals) + 1 <= MaxStdcallProgram
            /\ CallStatement(n, actuals)
    \/ \E op \in ReturnOperands :
            StreamBelow(MaxStdcallProgram) /\ AddReturn(op)
    \/ PostprocessSymbolTable
    \/ EmitMzHeader
    \/ EmitInstructionsBegin
    \/ EmitInstruction
    \/ EmitInstructionsEnd
    \/ EmitSharedFunctions
    \/ EmitStaticData
    \/ FixMzHeader
    \/ Save

SpecStdcall == Init /\ [][NextStdcall]_vars

\* The bytes the declared parameters of a function take on the stack: the
\* sum over them of the larger of 2 and the size of the parameter
RECURSIVE DeclaredBytesFrom(_, _)
DeclaredBytesFrom(n, k) ==
    IF k > Len(symbol_table) THEN 0
    ELSE LET symbol == symbol_table[k]
             size == GetSymbolTypeSize(symbol.type)
         IN (IF symbol.parent = n /\ symbol.parameter # 0
             THEN (IF size > 2 THEN size ELSE 2) ELSE 0)
            + DeclaredBytesFrom(n, k + 1)

DeclaredBytes(n) == DeclaredBytesFrom(n, 1)

\* C23: every Return emitted for a function other than the entry point
\* restores SP from BP, pops BP and returns with retn imm16, where imm16 is
\* the sum over the parameters of the function of max(2, size) (a plain
\* retn when that is 0), whatever the number of parameters; for a non-void
\* function the operand is copied to AX at the size of the return type.
C23_ReturnSequence ==
    \A k \in 1..Len(emitter.returns) :
        LET return == emitter.returns[k]
            function == symbol_table[return.function]
        IN /\ return.restore_sp
           /\ return.retn_imm16 = DeclaredBytes(function.name)
           /\ return.ax = IF TypeIsVoid(function.return_type) THEN 0
                          ELSE GetSymbolTypeSize(function.return_type)

\* The bytes the callee of a call releases with the retn it ends with, or
\* -1 while none of its returns has been emitted
Released(c) ==
    LET callee == symbol_table[c.target]
        R == {k \in 1..Len(emitter.returns) :
                emitter.returns[k].function = c.target}
    IN IF callee.type.base = "SharedFunction"
       THEN IF \E k \in 1..Len(emitter.shared) :
                    emitter.shared[k] = callee.name
            THEN SharedFunctionLeave[callee.name] ELSE -1
       ELSE IF R = {} THEN -1
       ELSE emitter.returns[CHOOSE k \in R : TRUE].retn_imm16

\* C30: for every call emitted, the bytes the caller pushes for the
\* arguments are the bytes the callee releases with its retn immediate,
\* and both are the sum over the declared parameters of the callee of
\* max(2, size); this holds for compiled functions and for the shared
\* functions as declared.
C30_StackBalance ==
    \A k \in 1..Len(emitter.calls) :
        LET c == emitter.calls[k]
            declared == DeclaredBytes(symbol_table[c.target].name)
        IN /\ c.pushed = declared
           /\ Released(c) # -1 => Released(c) = declared

-----------------------------------------------------------------------------
(* The register allocator: an entry point with the static s, the 8-bit     *)
(* locals a, b and c and the 16-bit local w, and a body of assignments     *)

MaxEvictProgram == 5

AssignEntry(type, dst, op1, op2) ==
    [type |-> "Assign", arg |-> 0, assign |-> type, dst_value |-> dst,
     dst_index |-> nullptr, op1 |-> op1, op2 |-> op2]

VariableOperand(n, t) == InstructionOperand(n, t, "Variable")

LocalNames == << "a", "b", "c", "w" >>

LocalType(n) == IF n = "w" THEN Uint16 ELSE Uint8

EvictEntries ==
    {AssignEntry("None", n, Constant(<< "1" >>), NoInstruction) :
        n \in {"s", "a", "b", "c", "w"}}
    \cup {AssignEntry("None", "w", VariableOperand("a", Uint8), NoInstruction),
          AssignEntry("Add", "w", VariableOperand("w", Uint16),
                      VariableOperand("a", Uint8))}

\* The declarations come in one order: the static, then the locals
DeclareVariables ==
    \/ NumStatics = 0 /\ AddStaticVariable(Uint8, 0, "s")
    \/ /\ NumStatics = 1 /\ QueueBelow(Len(LocalNames))
       /\ Undefined(EntryPointName)
       /\ \E n \in {LocalNames[Len(declaration_queue) + 1]} :
            ToDeclarationList(LocalType(n), 0, n, "Variable")

Declared == NumStatics = 1 /\ ~QueueBelow(Len(LocalNames))

NextEvict ==
    \/ DeclareVariables
    \/ \E entry \in EvictEntries :
        Declared /\ StreamBelow(MaxEvictProgram + 1) /\ AddEntry(entry)
    \/ /\ Declared /\ Len(instruction_stream) = MaxEvictProgram + 1
       /\ AddReturn(InstructionOperand("0", Uint8, "Constant"))
    \/ /\ Declared /\ ~StreamBelow(MaxEvictProgram + 2)
       /\ AddFunction(EntryPointName, Uint8)
    \/ PostprocessSymbolTable
    \/ EmitMzHeader
    \/ EmitInstructionsBegin
    \/ EmitInstruction
    \/ EmitInstructionsEnd
    \/ EmitSharedFunctions
    \/ EmitStaticData
    \/ FixMzHeader
    \/ Save

SpecEvict == Init /\ [][NextEvict]_vars

\* The variables of the list that are statics or belong to the function and
\* are bound to the register
BoundTo(variables, parent, reg) ==
    {k \in 1..Len(variables) :
        /\ variables[k].reg = reg
        /\ variables[k].symbol.parent \in {nullptr, parent}}

\* The registers a call of the allocator may hand out without evicting
FreeAt(al) ==
    {reg \in (AX..BX) \ al.suppressed : BoundTo(al.before, al.parent, reg) = {}}

\* The variables a call of the allocator may evict: those bound to a
\* register that is not suppressed
Evictable(al) ==
    {k \in 1..Len(al.before) :
        \E reg \in (AX..BX) \ al.suppressed :
            k \in BoundTo(al.before, al.parent, reg)}

\* A later instruction of the stream names the variable as an operand
NamedLater(al, k) ==
    \E ip \in (al.ip_src + 1)..(Len(instruction_stream) - 1) :
        LET i == instruction_stream[ip + 1]
        IN /\ IsAssignment(i)
           /\ \/ NamesVariable(i.op1, al.before[k].symbol.name)
              \/ NamesVariable(i.op2, al.before[k].symbol.name)

Dirty(al, k) == al.before[k].is_dirty

DirtyAndLive(al, k) ==
    /\ al.before[k].is_dirty
    /\ \/ al.before[k].symbol.parent = nullptr
       \/ NamedLater(al, k)

\* What the allocator does in every case; the evicted variable is written
\* back when it is dirty or, with live_only, when it is dirty and live
AllocatorContract(live_only) ==
    \A j \in 1..Len(emitter.allocations) :
        LET al == emitter.allocations[j]
        IN /\ al.result \notin al.suppressed
           /\ FreeAt(al) # {} =>
                /\ al.result \in FreeAt(al)
                /\ al.bytes = 0
                /\ al.after = al.before
           /\ FreeAt(al) = {} /\ al.try =>
                /\ al.result = CpuRegisterNone
                /\ al.bytes = 0
                /\ al.after = al.before
           /\ FreeAt(al) = {} /\ ~al.try =>
                /\ al.result \in (AX..BX) \ al.suppressed
                /\ BoundTo(al.after, al.parent, al.result) = {}
                /\ \E k \in BoundTo(al.before, al.parent, al.result) :
                    /\ \A other \in Evictable(al) :
                            al.before[k].last_used
                                <= al.before[other].last_used
                    /\ (al.bytes > 0) = IF live_only THEN DirtyAndLive(al, k)
                                        ELSE Dirty(al, k)
                    /\ \A other \in 1..Len(al.before) :
                            other # k => al.after[other] = al.before[other]

\* C26: GetUnusedRegister never returns a suppressed register; when a
\* register that is not suppressed is bound to no static and to no variable
\* of the function it returns such a register and emits nothing; else it
\* evicts the variable with the smallest last_used among the registers that
\* are not suppressed, writes it back exactly when it is dirty, and leaves
\* the returned register unbound.  TryGetUnusedRegister returns None
\* instead of evicting and changes no descriptor.
C26_GetUnusedRegister == AllocatorContract(FALSE)

\* The same with the write back the code performs: the evicted variable is
\* stored exactly when it is dirty and either a static or named as an
\* operand by a later instruction of the function
EvictionStoresLiveOnly == AllocatorContract(TRUE)

\* A dirty variable is evicted without a store by the instruction that
\* reads it as its second operand
EvictedOperand ==
    \E j \in 1..Len(emitter.allocations) :
        LET al == emitter.allocations[j]
        IN /\ ~al.try /\ FreeAt(al) = {} /\ al.bytes = 0
           /\ \E k \in BoundTo(al.before, al.parent, al.result) :
                /\ al.before[k].is_dirty
                /\ NamesVariable(instruction_stream[al.ip_src + 1].op2,
                                 al.before[k].symbol.name)

-----------------------------------------------------------------------------
(* Variables in the registers across jumps, calls, returns and functions:  *)
(* the static s, the functions f and g and the entry point with the local  *)
(* a                                                                       *)

MaxRegisterProgram == 4

RegisterJumps ==
    {InstructionEntry("Goto", ip) : ip \in 1..MaxRegisterProgram}
    \cup {IfEntry(ip, "Equal", Constant(<< "1" >>), Constant(<< "1" >>)) :
            ip \in {1, MaxRegisterProgram}}
    \cup {InstructionEntry("GotoLabel", "L")}

\* The local a is declared in the entry point, after f and g
LocalDeclared ==
    \E k \in 1..Len(declaration_queue) : declaration_queue[k].name = "a"

\* The entries of a type in the stream
EntriesOf(types) ==
    {k \in 2..Len(instruction_stream) : instruction_stream[k].type \in types}

NextRegister ==
    \/ NumStatics = 0 /\ AddStaticVariable(Uint8, 0, "s")
    \/ /\ NumStatics = 1 /\ Undefined("f") /\ EntriesOf({"Assign"}) # {}
       /\ AddFunction("f", Void)
    \/ /\ ~Undefined("f") /\ Undefined("g") /\ Undefined(EntryPointName)
       /\ ~LocalDeclared /\ StreamBelow(MaxRegisterProgram)
       /\ AddFunction("g", Void)
    \/ /\ ~Undefined("f") /\ Undefined(EntryPointName) /\ ~LocalDeclared
       /\ ToDeclarationList(Uint8, 0, "a", "Variable")
    \/ /\ LocalDeclared /\ ~StreamBelow(MaxRegisterProgram + 1)
       /\ AddFunction(EntryPointName, Uint8)
    \/ /\ NumStatics = 1 /\ StreamBelow(MaxRegisterProgram + 1)
       /\ AddEntry(AssignEntry("None", "s", Constant(<< "1" >>), NoInstruction))
    \/ /\ LocalDeclared /\ StreamBelow(MaxRegisterProgram + 1)
       /\ AddEntry(AssignEntry("None", "a", Constant(<< "1" >>), NoInstruction))
    \/ \E entry \in RegisterJumps :
        /\ LocalDeclared /\ StreamBelow(MaxRegisterProgram + 1)
        /\ JumpsBelow(1) /\ AddEntry(entry)
    \/ /\ LocalDeclared /\ StreamBelow(MaxRegisterProgram + 1)
       /\ LabelsBelow(1) /\ AddLabel("L", NextIp)
    \/ /\ NumStatics = 1 /\ StreamBelow(MaxRegisterProgram + 1)
       /\ EntriesOf({"Call"}) = {} /\ AddCall("f")
    \/ \E op \in ReturnOperands :
        /\ NumStatics = 1 /\ StreamBelow(MaxRegisterProgram + 1)
        /\ EntriesOf({"Return"}) = {} /\ AddReturn(op)
    \/ PostprocessSymbolTable
    \/ EmitMzHeader
    \/ EmitInstructionsBegin
    \/ EmitInstruction
    \/ EmitInstructionsEnd
    \/ EmitSharedFunctions
    \/ EmitStaticData
    \/ FixMzHeader
    \/ Save

SpecRegister == Init /\ [][NextRegister]_vars

\* The IPs that are the target of a Goto or of an If of the stream or the
\* position of a label
JumpTargets ==
    DiscontinuousIps(instruction_stream)
    \cup {symbol_table[k].ip : k \in {j \in 1..Len(symbol_table) :
                                    symbol_table[j].type.base = "Label"}}

\* The statics and the variables of the function that are bound to a
\* register in a list of descriptors
BoundVariables(variables, function) ==
    {k \in 1..Len(variables) :
        /\ variables[k].reg # CpuRegisterNone
        /\ \/ variables[k].symbol.parent = nullptr
           \/ /\ function # 0
              /\ variables[k].symbol.parent = symbol_table[function].name}

\* The last time the address of the IP was recorded in ip_src_to_dst
LastMapped(ip) ==
    emitter.mapped[Max({j \in 1..Len(emitter.mapped) :
                            emitter.mapped[j].ip_src = ip})]

\* The IPs whose instruction the loop of EmitInstructions has emitted
EmittedIps == {emitter.emitted[k] : k \in 1..Len(emitter.emitted)}

\* Every unloading the loop of EmitInstructions performs at its head and
\* ProcessSymbolLinkage performs at a label leaves no static and no variable
\* of the function bound, and stores the statics that were dirty
UnloadingsUnbind ==
    \A j \in 1..Len(emitter.targets) :
        LET target == emitter.targets[j]
        IN /\ BoundVariables(target.after, target.parent) = {}
           /\ \A k \in BoundVariables(target.before, target.parent) :
                ( /\ target.before[k].is_dirty
                  /\ target.before[k].symbol.parent = nullptr )
                => \E n \in 1..Len(emitter.saves) :
                    /\ emitter.saves[n].variable = k
                    /\ emitter.saves[n].ip_src = target.ip_src

\* C27: whenever emission reaches an IP that is the target of a Goto or an
\* If or the position of a label, the statics and the variables of the
\* function are unbound from their registers before the address of the IP is
\* recorded in ip_src_to_dst, and the dirty statics were written back.
C27_TargetsUnloaded ==
    /\ \A ip \in EmittedIps \cap JumpTargets :
        BoundVariables(LastMapped(ip).variables, LastMapped(ip).parent) = {}
    /\ UnloadingsUnbind

\* The statics of a list of descriptors that are bound to a register
BoundStatics(variables) ==
    {k \in 1..Len(variables) :
        /\ variables[k].symbol.parent = nullptr
        /\ variables[k].reg # CpuRegisterNone}

\* C25: a static assigned in a function is written to its slot by the code
\* of the function before it returns: when a Return is emitted no static is
\* dirty in a register, and no static is bound to a register when the
\* emission of the next function starts.
C25_StaticsWrittenBack ==
    /\ \A j \in 1..Len(emitter.returning) :
        \A k \in BoundStatics(emitter.returning[j].variables) :
            ~emitter.returning[j].variables[k].is_dirty
    /\ \A j \in 1..Len(emitter.prologues) :
        BoundStatics(emitter.prologues[j].variables) = {}

\* The function f ends with the static it assigned dirty in a register and
\* never stored, and the emission of the next function starts with it
StaticLeftInRegister ==
    /\ \E j \in 1..Len(emitter.returning) :
        \E k \in BoundStatics(emitter.returning[j].variables) :
            /\ emitter.returning[j].variables[k].is_dirty
            /\ emitter.machine.mem[k] = Unknown
    /\ \E j \in 1..Len(emitter.prologues) :
        /\ emitter.prologues[j].function # 0
        /\ symbol_table[emitter.prologues[j].function].name = EntryPointName
        /\ BoundStatics(emitter.prologues[j].variables) # {}

\* A program is compiled to the end although no store of the static it
\* assigned was emitted
StaticNeverStored ==
    /\ phase = "done" /\ error = "none"
    /\ Len(emitter.saves) = 0
    /\ \E k \in 1..Len(emitter.variables) :
        /\ emitter.variables[k].symbol.parent = nullptr
        /\ emitter.values[k] = 1
        /\ emitter.machine.mem[k] = Unknown

\* C28: every instruction that reads a variable as an operand, from its
\* register or from its slot, reads the value the variable was last
\* assigned; hence no variable that was unbound dirty without a store is read
\* before it is assigned again.  (Multiplications, divisions and shifts are
\* not covered.)
C28_SpillSoundness ==
    \A j \in 1..Len(emitter.reads) :
        emitter.reads[j].value # Unknown
            => emitter.reads[j].got = emitter.reads[j].value

\* An instruction reads the slot of a variable that was assigned but never
\* stored
StaleSlotRead ==
    \E j \in 1..Len(emitter.reads) :
        /\ emitter.reads[j].value # Unknown
        /\ emitter.reads[j].got = Unknown
        /\ \A n \in 1..Len(emitter.saves) :
            emitter.saves[n].variable # emitter.reads[j].variable

-----------------------------------------------------------------------------
(* Additions and subtractions: the entry point with the locals a (8 bits)  *)
(* and w (16 bits), both assigned a constant first, then up to             *)
(* MaxArithProgram additions and subtractions of constants and variables   *)

MaxArithProgram == 2

ArithNames == << "a", "w" >>

ArithOperands ==
    {Constant(<< "5" >>), Constant(<< "3" >>),
     VariableOperand("a", Uint8), VariableOperand("w", Uint16)}

ArithEntries ==
    {AssignEntry(type, dst, op1, op2) :
        type \in {"Add", "Subtract"}, dst \in {"a", "w"},
        op1 \in ArithOperands, op2 \in ArithOperands}

NextArith ==
    \/ /\ QueueBelow(Len(ArithNames)) /\ Undefined(EntryPointName)
       /\ \E n \in {ArithNames[Len(declaration_queue) + 1]} :
            ToDeclarationList(LocalType(n), 0, n, "Variable")
    \/ /\ ~QueueBelow(Len(ArithNames)) /\ Len(instruction_stream) = 1
       /\ AddEntry(AssignEntry("None", "a", Constant(<< "2", "0", "0" >>),
                               NoInstruction))
    \/ /\ Len(instruction_stream) = 2
       /\ AddEntry(AssignEntry("None", "w",
                    InstructionOperand(<< "3", "0", "0" >>, Uint16, "Constant"),
                    NoInstruction))
    \/ \E entry \in ArithEntries :
        /\ Len(instruction_stream) \in 3..(2 + MaxArithProgram)
        /\ EntriesOf({"Return"}) = {}
        /\ AddEntry(entry)
    \/ /\ Len(instruction_stream) > 3 /\ EntriesOf({"Return"}) = {}
       /\ AddReturn(InstructionOperand("0", Uint8, "Constant"))
    \/ /\ EntriesOf({"Return"}) # {}
       /\ AddFunction(EntryPointName, Uint8)
    \/ PostprocessSymbolTable
    \/ EmitMzHeader
    \/ EmitInstructionsBegin
    \/ EmitInstruction
    \/ EmitInstructionsEnd
    \/ EmitSharedFunctions
    \/ EmitStaticData
    \/ FixMzHeader
    \/ Save

SpecArith == Init /\ [][NextArith]_vars

\* The additions and subtractions that were emitted, as they are recorded
\* when the destination is bound
Sums ==
    {j \in 1..Len(emitter.assigned) :
        instruction_stream[emitter.assigned[j].ip_src + 1].assign
            \in {"Add", "Subtract"}}

BothConstants(i) ==
    i.op1.exp_type = "Constant" /\ i.op2.exp_type = "Constant"

\* The register of the destination holds the result of the intermediate
\* code, and two constants are folded without an arithmetic instruction
SumIsRight(j) ==
    LET sum == emitter.assigned[j]
        i == instruction_stream[sum.ip_src + 1]
    IN /\ sum.value # Unknown => sum.held = sum.value
       /\ BothConstants(i) =>
            \A n \in 1..Len(emitter.arithmetic) :
                emitter.arithmetic[n] # sum.ip_src

\* C21: the code emitted for an addition (a subtraction) leaves op1 + op2
\* (op1 - op2) modulo 2^(8 * size of the destination) in the register of
\* the destination, for every combination of constants and variables; two
\* constants are folded with no arithmetic instruction, and a constant first
\* operand that is swapped still gives op1 - op2.
C21_AddSubtract == \A j \in Sums : SumIsRight(j)

\* The operands the instruction at the IP read were the values of their
\* variables
FreshOperands(ip) ==
    \A n \in 1..Len(emitter.reads) :
        emitter.reads[n].ip_src = ip
            => emitter.reads[n].got = emitter.reads[n].value

\* The same for all but the subtractions of two constants and the
\* instructions that read a variable from a slot that was not written
SumsButConstantDifference ==
    \A j \in Sums :
        LET i == instruction_stream[emitter.assigned[j].ip_src + 1]
        IN ( /\ ~(BothConstants(i) /\ i.assign = "Subtract")
             /\ FreshOperands(emitter.assigned[j].ip_src) )
           => SumIsRight(j)

\* The difference of two constants is folded to op2 - op1
ConstantDifferenceReversed ==
    \E j \in Sums :
        LET sum == emitter.assigned[j]
            i == instruction_stream[sum.ip_src + 1]
            size == GetSymbolTypeSize(emitter.variables[sum.dst].symbol.type)
        IN /\ BothConstants(i) /\ i.assign = "Subtract"
           /\ Atoi(i.op1.value) # Atoi(i.op2.value)
           /\ sum.held = Truncate(Atoi(i.op2.value) - Atoi(i.op1.value) + 65536,
                                  size)
           /\ sum.held # sum.value

\* A subtraction with a constant first operand and a variable second
\* operand is emitted and its result is op1 - op2
SwappedDifference ==
    \E j \in Sums :
        LET sum == emitter.assigned[j]
            i == instruction_stream[sum.ip_src + 1]
        IN /\ i.assign = "Subtract"
           /\ i.op1.exp_type = "Constant" /\ i.op2.exp_type = "Variable"
           /\ sum.held = sum.value /\ sum.value # Unknown

=============================================================================
